---- MODULE Spec2Model ----
(***************************************************************************)
(* Verification model of FreeRDP's TLS transport (libfreerdp/crypto/tls.c) *)
(* The certificate trust policy (tls_verify_certificate), the handshake    *)
(* driver (freerdp_tls_handshake) and the BIO read/write path              *)
(* (bio_rdp_tls_write, bio_rdp_tls_read, freerdp_tls_write_all).           *)
(* The connection driver (freerdp_tls_connect, pollAndHandshake) and the   *)
(* bitmap cache with its cache and drawing orders                          *)
(* (libfreerdp/cache/bitmap.c).                                            *)
(*                                                                         *)
(* Not modelled: allocation failure (every `if (!ptr)` after a malloc-like *)
(* call is taken to succeed), the CertificateName override of the hostname *)
(* (the model has one host:port), lengths above INT32_MAX in               *)
(* freerdp_tls_write_all, and the two callbacks that only a build          *)
(* WITH_FREERDP_DEPRECATED has.                                            *)
(***************************************************************************)
EXTENDS Integers, Sequences, FiniteSets, TLC

VARIABLES
    store,      \* known-hosts store: host:port -> certificate or None
    accepted,   \* settings AcceptedCert / GatewayAcceptedCert / RedirectionAcceptedCert
    call,       \* record of the last completed tls_verify_certificate call
    tls,        \* the rdpTls session: role, bindings, public key, alert code, queued alert
    hs,         \* record of the last completed freerdp_tls_handshake call
    firstUse,   \* the previous verification, if it verified a certificate of an unknown host
    bioFlags,   \* the BIO's flags (BIO_FLAGS_READ, _WRITE, _IO_SPECIAL, _SHOULD_RETRY)
    lock,       \* BIO_RDP_TLS.lock: the thread inside the critical section, or None
    th,         \* per thread: where it is in freerdp_tls_write_all / BIO_read, and its locals
    abort,      \* the session's abort event (freerdp_abort_event) is signaled
    bioEvent,   \* the BIO's readiness event (BIO_get_event) is signaled
    poll,       \* where freerdp_tls_connect / pollAndHandshake is, and what it has seen
    cells,      \* rdpBitmapCache.cells: per cell its capacity and its capacity+1 slots
    bitmaps,    \* the rdpBitmap objects: state, bpp, and how often Bitmap_Free got them
    op,         \* record of the last bitmap cache operation or order
    rb,         \* the RingBuffer: buffer, size, initialSize, readPtr, writePtr, freeSize
    rbOp,       \* record of the last ring buffer operation, and the bytes due next
    hm          \* record of the last tls_match_hostname call

verifyVars == <<store, accepted, call>>
hsVars == <<tls, hs>>
ioVars == <<bioFlags, lock, th>>
connVars == <<abort, bioEvent, poll>>
cacheVars == <<cells, bitmaps, op>>
rbVars == <<rb, rbOp>>
hmVars == <<hm>>
vars == <<store, accepted, call, tls, hs, firstUse, bioFlags, lock, th,
          abort, bioEvent, poll, cells, bitmaps, op, rb, rbOp, hm>>

None == "None"

(***************************************************************************)
(* Certificates and hosts.  A certificate is an opaque identity; the       *)
(* accessors below keep the different renderings of it apart.              *)
(***************************************************************************)
Certs == {"certA", "certB"}
Hosts == {"rdp.example.com:3389"}

freerdp_certificate_get_pem(c) == IF c = None THEN None ELSE "pem of " \o c
freerdp_certificate_get_fingerprint(c) == IF c = None THEN None ELSE "fingerprint of " \o c
freerdp_certificate_get_subject(c) == IF c = None THEN None ELSE "subject of " \o c
freerdp_certificate_get_issuer(c) == IF c = None THEN None ELSE "issuer of " \o c

(***************************************************************************)
(* Certificate store (certificate_store.c is outside the sources at hand:  *)
(* contains/load/save follow the specification's store interface and the   *)
(* return codes tls_verify_certificate switches on).                       *)
(***************************************************************************)
MATCH == 0
MISSING == 1
CHANGED == -1

freerdp_certificate_store_contains_data(st, h, c) ==
    IF st[h] = None THEN MISSING
    ELSE IF st[h] = c THEN MATCH
    ELSE CHANGED

freerdp_certificate_store_load_data(st, h) == st[h]

freerdp_certificate_store_save_data(st, h, c) == [st EXCEPT ![h] = c]

(***************************************************************************)
(* Transport kind: tls->isGatewayTransport and settings->RedirectionFlags. *)
(***************************************************************************)
Transports ==
    { [isGatewayTransport |-> FALSE, RedirectionFlags |-> {}],
      [isGatewayTransport |-> FALSE, RedirectionFlags |-> {"LB_TARGET_NET_ADDRESS"}],
      [isGatewayTransport |-> FALSE, RedirectionFlags |-> {"LB_NOREDIRECT", "LB_TARGET_NET_ADDRESS"}],
      [isGatewayTransport |-> TRUE, RedirectionFlags |-> {}],
      [isGatewayTransport |-> TRUE, RedirectionFlags |-> {"LB_TARGET_NET_ADDRESS"}] }

AcceptedKeys == {"AcceptedCert", "GatewayAcceptedCert", "RedirectionAcceptedCert"}

is_redirected(t) ==
    IF "LB_NOREDIRECT" \in t.RedirectionFlags THEN FALSE
    ELSE t.RedirectionFlags # {}

\* the settings key is_accepted and accept_cert select for a transport
keyAccepted(t) ==
    IF t.isGatewayTransport THEN "GatewayAcceptedCert"
    ELSE IF is_redirected(t) THEN "RedirectionAcceptedCert"
    ELSE "AcceptedCert"

\* variant: a PEM recorded under any of the three keys counts
is_accepted_any_kind(acc, t, c) ==
    \E k \in AcceptedKeys : acc[k] # None /\ acc[k] = freerdp_certificate_get_pem(c)

\* is_accepted: TRUE iff the recorded PEM equals the presented PEM
is_accepted(acc, t, c) ==
    /\ acc[keyAccepted(t)] # None
    /\ acc[keyAccepted(t)] = freerdp_certificate_get_pem(c)

\* is_accepted, on a mismatch, resets the key it looked at
is_accepted_clear(acc, t) == [acc EXCEPT ![keyAccepted(t)] = None]

\* variant: the accepted PEM is not recorded
accept_cert_not_recorded(acc, t, c) == acc

\* lines 1449-1482: record the presented PEM under the transport's key
accept_cert(acc, t, c) == [acc EXCEPT ![keyAccepted(t)] = freerdp_certificate_get_pem(c)]

(***************************************************************************)
(* settings->CertificateAcceptedFingerprints: a comma separated list of    *)
(* hash:fingerprint entries, here after strtok_s has cut it: h is the text *)
(* before the first colon of an entry and fp all that follows it.  Texts   *)
(* are sequences of characters.                                            *)
(***************************************************************************)
ToLower(ch) ==
    IF ch = "A" THEN "a" ELSE IF ch = "B" THEN "b" ELSE IF ch = "C" THEN "c"
    ELSE IF ch = "D" THEN "d" ELSE ch

Lower(text) == [i \in DOMAIN text |-> ToLower(text[i])]

\* _stricmp(a, b) == 0
_stricmp(a, b) == Lower(a) = Lower(b)

\* the digest of a certificate under a hash algorithm, byte by byte in hex
\* (certificate.c is outside the sources at hand); an unknown name gives NULL
Digest(c, hash) ==
    IF hash = "sha256" THEN << <<"a", "b">>, IF c = "certA" THEN <<"0", "1">> ELSE <<"0", "2">> >>
    ELSE IF hash = "sha1" THEN << <<"c", "d">>, IF c = "certA" THEN <<"0", "1">> ELSE <<"0", "2">> >>
    ELSE None

\* aa:bb with the separator, aabb without
freerdp_certificate_get_fingerprint_by_hash_ex(c, hash, separator) ==
    LET d == Digest(c, hash)
    IN IF d = None THEN None
       ELSE IF separator THEN d[1] \o <<":">> \o d[2]
       ELSE d[1] \o d[2]

\* lines 1384-1399
compare_fingerprint(fp, hash, c, separator) ==
    LET strhash == freerdp_certificate_get_fingerprint_by_hash_ex(c, hash, separator)
    IN IF strhash = None THEN FALSE ELSE _stricmp(strhash, fp)

\* variant: only the form without separators is compared
compare_fingerprint_all_unseparated(fp, hash, c) == compare_fingerprint(fp, hash, c, FALSE)

\* lines 1401-1411
compare_fingerprint_all(fp, hash, c) ==
    \/ compare_fingerprint(fp, hash, c, FALSE)
    \/ compare_fingerprint(fp, hash, c, TRUE)

FingerprintLists ==
    { <<>>,
      << [h |-> "md4", fp |-> <<"a", "b", "0", "1">>],
         [h |-> "sha1", fp |-> <<"c", "D", ":", "0", "1">>] >>,
      << [h |-> "sha1", fp |-> <<"a", "b", "0", "2">>],
         [h |-> "sha256", fp |-> <<"A", "B", "0", "2">>] >> }

\* lines 1413-1447
is_accepted_fingerprint(c, fps) ==
    \E i \in 1..Len(fps) : compare_fingerprint_all(fps[i].fp, fps[i].h, c)

(***************************************************************************)
(* tls_match_hostname (lines 1305-1326).  pattern is a common name or DNS  *)
(* name of the certificate, hostname the name the client connects to.      *)
(***************************************************************************)
MaxPattern == 3
MaxHostname == 5

PatternChars == {"a", "B", ".", "*"}
HostnameChars == {"a", "A", "b", "."}

Texts(chars, n) == UNION { [1..k -> chars] : k \in 0..n }

\* _strnicmp(a, b, n) == 0 for texts of at least n characters
_strnicmp(a, b, n) == Lower(SubSeq(a, 1, n)) = Lower(SubSeq(b, 1, n))

tls_match_hostname(pattern, hostname) ==
    LET pattern_length == Len(pattern)
    IN \/ /\ Len(hostname) = pattern_length
          /\ _strnicmp(hostname, pattern, pattern_length)
       \/ /\ pattern_length > 2
          /\ pattern[1] = "*"
          /\ pattern[2] = "."
          /\ Len(hostname) >= pattern_length
          \* check_hostname = &hostname[strlen(hostname) - pattern_length + 1]
          /\ _strnicmp(SubSeq(hostname, Len(hostname) - pattern_length + 2, Len(hostname)),
                       SubSeq(pattern, 2, pattern_length), pattern_length - 1)

\* hostname_match is the caller's: some name of the certificate has matched
NoHm == [pattern |-> <<>>, hostname |-> <<>>, result |-> FALSE, called |-> FALSE,
         hostname_match |-> FALSE]

InitHm == hm = NoHm

(***************************************************************************)
(* Flags handed to the callbacks.                                          *)
(***************************************************************************)
TransportFlags(t) ==
    (IF t.isGatewayTransport \/ is_redirected(t) THEN {"VERIFY_CERT_FLAG_LEGACY"} ELSE {})
    \cup (IF t.isGatewayTransport THEN {"VERIFY_CERT_FLAG_GATEWAY"} ELSE {})
    \cup (IF is_redirected(t) THEN {"VERIFY_CERT_FLAG_REDIRECT"} ELSE {})

MismatchFlags(flags, hostname_match) ==
    IF ~hostname_match THEN flags \cup {"VERIFY_CERT_FLAG_MISMATCH"} ELSE flags

\* variant: the changed-identity bit is not set
ChangedFlagsUnset(flags) == flags

ChangedFlags(flags) == flags \cup {"VERIFY_CERT_FLAG_CHANGED"}

PemFlags(flags) == flags \cup {"VERIFY_CERT_FLAG_FP_IS_PEM"}

(***************************************************************************)
(* certificates.json                                                       *)
(***************************************************************************)
NoJson == [present |-> FALSE, deny |-> FALSE, ignore |-> FALSE, db |-> <<>>, denyUserconfig |-> FALSE]

\* "certificate-db": arrays of {type, hash} entries
CertificateDbs == { <<>>, << [type |-> "md4", hash |-> <<"a", "b", "0", "1">>],
                             [type |-> "sha256", hash |-> <<"A", "B", "0", "1">>] >> }

ConfigFiles ==
    {NoJson} \cup
    { [present |-> TRUE, deny |-> d, ignore |-> i, db |-> b, denyUserconfig |-> u] :
        d \in BOOLEAN, i \in BOOLEAN, b \in CertificateDbs, u \in BOOLEAN }

\* lines 1504-1566: some entry gives the certificate's fingerprint (without
\* separators) under the hash algorithm it names
tls_config_check_allowed_hashed(c, db) ==
    \E x \in 1..Len(db) :
        LET hash == freerdp_certificate_get_fingerprint_by_hash_ex(c, db[x].type, FALSE)
        IN hash # None /\ _stricmp(hash, db[x].hash)

\* variant: "ignore" is looked at before "deny"
tls_config_check_certificate_ignore_first(c, cfg) ==
    IF ~cfg.present THEN 0
    ELSE IF cfg.ignore THEN 1
    ELSE IF cfg.deny THEN -1
    ELSE IF tls_config_check_allowed_hashed(c, cfg.db) THEN 1
    ELSE IF cfg.denyUserconfig THEN -1
    ELSE 0

\* lines 1568-1616
tls_config_check_certificate(c, cfg) ==
    IF ~cfg.present THEN 0
    ELSE IF cfg.deny THEN -1
    ELSE IF cfg.ignore THEN 1
    ELSE IF tls_config_check_allowed_hashed(c, cfg.db) THEN 1
    ELSE IF cfg.denyUserconfig THEN -1
    ELSE 0

\* *pAllowUserconfig = (rc == 0)
allowUserconfig(c, cfg) == tls_config_check_certificate(c, cfg) = 0

(***************************************************************************)
(* User callbacks                                                          *)
(***************************************************************************)
CallbackNames == {"VerifyX509Certificate", "VerifyCertificateEx", "VerifyChangedCertificateEx"}

\* return values of VerifyX509Certificate (int) and of the Ex callbacks (DWORD)
X509Answers == {-1, 0, 1, 2}
ExAnswers == {0, 1, 2, 3}

NoCb == [name |-> None, flags |-> {}, fp |-> None, old_subject |-> None,
         old_issuer |-> None, old_fp |-> None, answer |-> 0]

\* VerifyX509Certificate result -> accept_certificate
X509Accept(rc) == IF rc = 1 THEN 1 ELSE IF rc > 1 THEN 2 ELSE 0

\* accept_certificate when the store already holds this certificate
MatchAccept == 2

\* accept_certificate under AutoAcceptCertificate / AutoDenyCertificate
AutoAccept == 1
AutoDeny == 0

\* lines 1780-1790: a new host is auto-accepted, else auto-denied, else the user is asked
MissingAutoDecision(autoAccept, autoDeny) ==
    IF autoAccept THEN "accept" ELSE IF autoDeny THEN "deny" ELSE "ask"

\* variant: AutoDenyCertificate is not looked at for a changed host
ChangedAutoDecisionAsks(autoAccept, autoDeny) == "ask"

\* variant: a changed host is treated like a new one, AutoAcceptCertificate first
ChangedAutoDecisionLikeMissing(autoAccept, autoDeny) ==
    IF autoAccept THEN "accept" ELSE IF autoDeny THEN "deny" ELSE "ask"

\* lines 1851-1855: a changed host is auto-denied, else the user is asked
ChangedAutoDecision(autoAccept, autoDeny) ==
    IF autoDeny THEN "deny" ELSE "ask"

\* variant: IgnoreCertificate is looked at before ExternalCertificateManagement
PolicyBranchIgnoreFirst(ext, ign, isGatewayTransport, auth0) ==
    IF ign THEN "ignore"
    ELSE IF ext THEN "external"
    ELSE IF ~isGatewayTransport /\ auth0 THEN "authlevel"
    ELSE "full"

\* variant: the IgnoreCertificate branch is missing
PolicyBranchWithoutIgnore(ext, ign, isGatewayTransport, auth0) ==
    IF ext THEN "external"
    ELSE IF ~isGatewayTransport /\ auth0 THEN "authlevel"
    ELSE "full"

\* lines 1670-1698: which branch of the policy decides
PolicyBranch(ext, ign, isGatewayTransport, auth0) ==
    IF ext THEN "external"
    ELSE IF ign THEN "ignore"
    ELSE IF ~isGatewayTransport /\ auth0 THEN "authlevel"
    ELSE "full"

\* variant: `case 2` is missing from the switch
AcceptStatusWithoutTemporary(accept_certificate, saveOk) ==
    IF accept_certificate = 1 THEN (IF saveOk THEN 1 ELSE -1)
    ELSE -1

\* switch (accept_certificate): 1 saves, 2 accepts for this session, anything else rejects
AcceptStatus(accept_certificate, saveOk) ==
    IF accept_certificate = 1 THEN (IF saveOk THEN 1 ELSE -1)
    ELSE IF accept_certificate = 2 THEN 1
    ELSE -1

\* variant: a temporary accept is saved as well
AcceptStoreAlsoTemporary(accept_certificate, saveOk, st, h, c) ==
    IF accept_certificate \in {1, 2}
    THEN freerdp_certificate_store_save_data(st, h, c)
    ELSE st

\* variant: the entry is written before the switch, whatever was decided
AcceptStoreBeforeSwitch(accept_certificate, saveOk, st, h, c) ==
    freerdp_certificate_store_save_data(st, h, c)

\* lines 1923-1930: only `case 1` writes the known-hosts entry
AcceptStore(accept_certificate, saveOk, st, h, c) ==
    IF accept_certificate = 1 /\ saveOk
    THEN freerdp_certificate_store_save_data(st, h, c)
    ELSE st

(***************************************************************************)
(* The record of a call                                                    *)
(***************************************************************************)
NoCall ==
    [ path |-> "none", status |-> 0, cert |-> None, host |-> None,
      transport |-> [isGatewayTransport |-> FALSE, RedirectionFlags |-> {}],
      ExternalCertificateManagement |-> FALSE, IgnoreCertificate |-> FALSE,
      AutoAcceptCertificate |-> FALSE, AutoDenyCertificate |-> FALSE,
      storeBefore |-> None, acceptedBefore |-> None,
      fingerprints |-> <<>>, certificate_status |-> FALSE, hostname_match |-> FALSE,
      cfg |-> NoJson, configRead |-> FALSE, storeRead |-> FALSE, match |-> MATCH,
      registered |-> {}, cb |-> NoCb, accept_certificate |-> 0,
      AuthenticationLevel0 |-> FALSE, loadOk |-> FALSE,
      saveTried |-> FALSE, saveOk |-> FALSE, log |-> {} ]

Return(in, path, status, acc, st, extra) ==
    /\ call' = [path |-> path, status |-> status] @@ extra @@ in @@ NoCall
    /\ accepted' = acc
    /\ store' = st

(***************************************************************************)
(* tls_verify_certificate, from the bottom up.  `in` holds the arguments   *)
(* and the settings of the call, `acc` the accepted-PEM settings after     *)
(* is_accepted, `extra` what the call has read and logged so far.          *)
(***************************************************************************)

\* lines 1920-1949: switch (accept_certificate), then accept_cert on success
Decide(in, acc, extra, accept_certificate, cb) ==
    \E saveOk \in (IF accept_certificate = 1 THEN BOOLEAN ELSE {FALSE}) :
        LET status == AcceptStatus(accept_certificate, saveOk)
        IN Return(in, "store", status,
                  IF status > 0 THEN accept_cert(acc, in.transport, in.cert) ELSE acc,
                  AcceptStore(accept_certificate, saveOk, store, in.host, in.cert),
                  [accept_certificate |-> accept_certificate, cb |-> cb,
                   saveTried |-> (accept_certificate = 1), saveOk |-> saveOk] @@ extra)

\* lines 1766-1833: no entry for the host in the store
MissingBranch(in, acc, flags, extra0) ==
    LET extra == [log |-> extra0.log \cup {"WLog_ERR: new certificate warning"}
                          \cup (IF ~extra0.hostname_match
                                THEN {"WLog_ERR: certificate name mismatch"} ELSE {})] @@ extra0
    IN
    LET auto == MissingAutoDecision(in.AutoAcceptCertificate, in.AutoDenyCertificate) IN
    IF auto = "accept" THEN Decide(in, acc, extra, AutoAccept, NoCb)
    ELSE IF auto = "deny" THEN Decide(in, acc, extra, AutoDeny, NoCb)
    ELSE \E reg \in SUBSET CallbackNames :
        LET extra2 == [registered |-> reg] @@ extra IN
        IF "VerifyX509Certificate" \in reg
        THEN \E rc \in X509Answers :
                Decide(in, acc, extra2, X509Accept(rc),
                       [NoCb EXCEPT !.name = "VerifyX509Certificate", !.flags = flags,
                                    !.fp = freerdp_certificate_get_pem(in.cert), !.answer = rc])
        ELSE IF "VerifyCertificateEx" \in reg
        THEN \E use_pem \in BOOLEAN, a \in ExAnswers :
                Decide(in, acc, extra2, a,
                       [NoCb EXCEPT !.name = "VerifyCertificateEx",
                                    !.flags = IF use_pem THEN PemFlags(flags) ELSE flags,
                                    !.fp = IF use_pem THEN freerdp_certificate_get_pem(in.cert)
                                           ELSE freerdp_certificate_get_fingerprint(in.cert),
                                    !.answer = a])
        ELSE Decide(in, acc, extra2, 0, NoCb)

\* lines 1834-1916: the store holds another certificate for the host
ChangedBranch(in, acc, flags, extra0) ==
    \E loadOk \in BOOLEAN :
        LET stored_data == IF loadOk THEN freerdp_certificate_store_load_data(store, in.host)
                           ELSE None
            extra == [loadOk |-> loadOk,
                      log |-> extra0.log \cup {"WLog_ERR: certificate error"}
                              \cup (IF ~loadOk THEN {"WLog_WARN: failed to get certificate entry"}
                                    ELSE {})] @@ extra0
        IN
        LET auto == ChangedAutoDecision(in.AutoAcceptCertificate, in.AutoDenyCertificate) IN
        IF auto # "ask"
        THEN Decide(in, acc, extra, IF auto = "deny" THEN AutoDeny ELSE AutoAccept, NoCb)
        ELSE \E reg \in SUBSET CallbackNames :
            LET extra2 == [registered |-> reg] @@ extra IN
            IF "VerifyX509Certificate" \in reg
            THEN \E rc \in X509Answers :
                    Decide(in, acc, extra2, X509Accept(rc),
                           [NoCb EXCEPT !.name = "VerifyX509Certificate",
                                        !.flags = ChangedFlags(flags),
                                        !.fp = freerdp_certificate_get_pem(in.cert),
                                        !.answer = rc])
            ELSE IF "VerifyChangedCertificateEx" \in reg
            THEN \E preferPEM \in BOOLEAN, a \in ExAnswers :
                    LET old_pem == freerdp_certificate_get_pem(stored_data)
                        fpIsAllocated == (old_pem = None) \/ ~preferPEM
                    IN Decide(in, acc, extra2, a,
                           [name |-> "VerifyChangedCertificateEx",
                            flags |-> IF ~fpIsAllocated THEN PemFlags(ChangedFlags(flags))
                                      ELSE ChangedFlags(flags),
                            fp |-> IF ~fpIsAllocated THEN freerdp_certificate_get_pem(in.cert)
                                   ELSE freerdp_certificate_get_fingerprint(in.cert),
                            old_subject |-> freerdp_certificate_get_subject(stored_data),
                            old_issuer |-> freerdp_certificate_get_issuer(stored_data),
                            old_fp |-> IF ~fpIsAllocated THEN old_pem
                                       ELSE freerdp_certificate_get_fingerprint(stored_data),
                            answer |-> a])
            ELSE Decide(in, acc, extra2, 0, NoCb)

\* lines 1751-1946: known-hosts lookup and the user's decision
StoreLookup(in, acc, flags, extra0) ==
    LET match == freerdp_certificate_store_contains_data(store, in.host, in.cert)
        extra == [storeRead |-> TRUE, match |-> match] @@ extra0
    IN IF match = MISSING THEN MissingBranch(in, acc, flags, extra)
       ELSE IF match = CHANGED THEN ChangedBranch(in, acc, flags, extra)
       ELSE IF match = MATCH THEN Decide(in, acc, extra, MatchAccept, NoCb)
       ELSE Decide(in, acc, extra, 0, NoCb)

\* lines 1699-1950: chain and name verification, certificates.json, store
FullVerification(in, acc, flags0) ==
    \E certificate_status \in BOOLEAN, hostname_match \in BOOLEAN :
        LET flags == MismatchFlags(flags0, hostname_match)
            extra0 == [certificate_status |-> certificate_status,
                       hostname_match |-> hostname_match, log |-> {}]
        IN
        IF certificate_status /\ hostname_match
        THEN Return(in, "verified", 1, accept_cert(acc, in.transport, in.cert), store, extra0)
        ELSE \E cfg \in ConfigFiles :
            LET verification_status == tls_config_check_certificate(in.cert, cfg)
                extra1 == [cfg |-> cfg, configRead |-> TRUE,
                           log |-> IF verification_status # 0
                                   THEN {"WLog_WARN: certificates.json decided"} ELSE {}] @@ extra0
            IN IF allowUserconfig(in.cert, cfg)
               THEN StoreLookup(in, acc, flags, extra1)
               ELSE Return(in, "config", verification_status,
                           IF verification_status > 0
                           THEN accept_cert(acc, in.transport, in.cert) ELSE acc,
                           store, extra1)

\* lines 1669-1686: certificate management is done by the application
ExternalManagement(in, acc, flags) ==
    \E reg \in SUBSET {"VerifyX509Certificate"} :
        IF "VerifyX509Certificate" \in reg
        THEN \E rc \in X509Answers :
                Return(in, "external", rc,
                       IF rc > 0 THEN accept_cert(acc, in.transport, in.cert) ELSE acc,
                       store,
                       [registered |-> reg,
                        cb |-> [NoCb EXCEPT !.name = "VerifyX509Certificate", !.flags = flags,
                                            !.fp = freerdp_certificate_get_pem(in.cert),
                                            !.answer = rc],
                        log |-> IF rc < 0 THEN {"WLog_ERR: VerifyX509Certificate failed"}
                                ELSE {}])
        ELSE Return(in, "external", -1, acc, store,
                    [registered |-> reg,
                     log |-> {"WLog_ERR: No VerifyX509Certificate callback registered",
                              "WLog_ERR: VerifyX509Certificate failed"}])

IgnoreWarning == {"WLog_WARN: [DANGER] Certificate not checked, /cert:ignore in use"}

\* lines 1618-1958
tls_verify_certificate(c, h, t, ext, ign, autoAccept, autoDeny) ==
    LET in == [cert |-> c, host |-> h, transport |-> t,
               ExternalCertificateManagement |-> ext, IgnoreCertificate |-> ign,
               AutoAcceptCertificate |-> autoAccept, AutoDenyCertificate |-> autoDeny,
               storeBefore |-> store, acceptedBefore |-> accepted]
        nothing == [log |-> {}]
    IN
    \E shall_disconnect \in BOOLEAN, pemOk \in BOOLEAN :
        IF shall_disconnect
        THEN pemOk /\ Return(in, "disconnect", -1, accepted, store, nothing)
        ELSE IF ~pemOk
        THEN Return(in, "nopem", -1, accepted, store, nothing)
        ELSE IF is_accepted(accepted, t, c)
        THEN Return(in, "accepted", 1, accepted, store, nothing)
        ELSE
            LET acc == is_accepted_clear(accepted, t) IN
            \E fps \in FingerprintLists :
                IF is_accepted_fingerprint(c, fps)
                THEN Return(in, "fingerprint", 1, acc, store, [fingerprints |-> fps])
                ELSE
                LET in2 == [fingerprints |-> fps] @@ in
                    flags == TransportFlags(t)
                IN
                \E auth0 \in (IF ext \/ ign THEN {FALSE} ELSE BOOLEAN) :
                    LET in3 == [AuthenticationLevel0 |-> auth0] @@ in2
                        branch == PolicyBranch(ext, ign, t.isGatewayTransport, auth0)
                    IN
                    IF branch = "external" THEN ExternalManagement(in3, acc, flags)
                    ELSE IF branch = "ignore"
                    THEN Return(in3, "ignore", 1, acc, store, [log |-> IgnoreWarning])
                    ELSE IF branch = "authlevel"
                    THEN Return(in3, "authlevel", 1, acc, store, nothing)
                    ELSE FullVerification(in3, acc, flags)

(***************************************************************************)
(* freerdp_tls_new: the session before any handshake.  legacyOpenSSL is    *)
(* the build: OpenSSL < 1.1.0 (or LibreSSL <= 2.8.3), where                *)
(* freerdp_tls_send_alert can reach into the SSL struct.                   *)
(***************************************************************************)
freerdp_tls_new(isClientMode, legacyOpenSSL) ==
    [ isClientMode |-> isClientMode, legacyOpenSSL |-> legacyOpenSSL,
      Bindings |-> None, PublicKey |-> None,
      alertLevel |-> "TLS_ALERT_LEVEL_WARNING",
      alertDescription |-> "TLS_ALERT_DESCRIPTION_CLOSE_NOTIFY",
      send_alert |-> None ]

AlertLevels == {"TLS_ALERT_LEVEL_WARNING", "TLS_ALERT_LEVEL_FATAL"}
AlertDescriptions == {"TLS_ALERT_DESCRIPTION_CLOSE_NOTIFY", "TLS_ALERT_DESCRIPTION_ACCESS_DENIED"}

tls_get_channel_bindings(c) == "tls-server-end-point:" \o c
freerdp_certificate_get_public_key(c) == "public key of " \o c

\* lines 1213-1258: the alert is dispatched only by the legacy build, and only
\* when the session's alert description is not close_notify
freerdp_tls_send_alert(s) ==
    IF s.legacyOpenSSL /\ s.alertDescription # "TLS_ALERT_DESCRIPTION_CLOSE_NOTIFY"
    THEN [s EXCEPT !.send_alert = <<s.alertLevel, s.alertDescription>>]
    ELSE s

\* variant: the result is set to success before the extractions
RetInitialSuccess == "TLS_HANDSHAKE_SUCCESS"

\* line 934: the result unless both extractions succeed
RetInitial == "TLS_HANDSHAKE_ERROR"

\* lines 979-992: the result once bindings and public key are held
VerifiedResult(isClientMode, verify_status) ==
    IF isClientMode /\ verify_status < 1 THEN "TLS_HANDSHAKE_VERIFY_ERROR"
    ELSE "TLS_HANDSHAKE_SUCCESS"

NoHs == [result |-> None, done |-> FALSE, cert |-> None, bindingsOk |-> FALSE,
         publicKeyOk |-> FALSE, verified |-> FALSE, tlsBefore |-> None]

HsReturn(result, s, extra) ==
    /\ hs' = [result |-> result, tlsBefore |-> tls] @@ extra @@ NoHs
    /\ tls' = s

\* the settings under which the handshake specification runs the trust policy:
\* external management and ignore-certificate give every return value of
\* tls_verify_certificate (-1, 0, 1, 2); its other paths are explored by SpecVerify
HandshakeSettings ==
    { [ext |-> TRUE, ign |-> FALSE], [ext |-> TRUE, ign |-> TRUE], [ext |-> FALSE, ign |-> TRUE] }

DirectTransport == [isGatewayTransport |-> FALSE, RedirectionFlags |-> {}]

\* lines 932-998
freerdp_tls_handshake ==
    \E done \in BOOLEAN :
        IF ~done
        THEN \E should_retry \in BOOLEAN :
                /\ HsReturn(IF should_retry THEN "TLS_HANDSHAKE_CONTINUE"
                            ELSE "TLS_HANDSHAKE_ERROR", tls, [done |-> FALSE])
                /\ UNCHANGED verifyVars
        ELSE \E cert \in Certs \cup {None} :
            IF cert = None
            THEN HsReturn("TLS_HANDSHAKE_ERROR", tls, [done |-> TRUE]) /\ UNCHANGED verifyVars
            ELSE \E bindingsOk \in BOOLEAN :
                LET in1 == [done |-> TRUE, cert |-> cert, bindingsOk |-> bindingsOk] IN
                IF ~bindingsOk
                THEN /\ HsReturn(RetInitial, [tls EXCEPT !.Bindings = None], in1)
                     /\ UNCHANGED verifyVars
                ELSE \E publicKeyOk \in BOOLEAN :
                    LET in2 == [publicKeyOk |-> publicKeyOk] @@ in1
                        s1 == [tls EXCEPT !.Bindings = tls_get_channel_bindings(cert)]
                    IN
                    IF ~publicKeyOk
                    THEN /\ HsReturn(RetInitial, [s1 EXCEPT !.PublicKey = None], in2)
                         /\ UNCHANGED verifyVars
                    ELSE
                        LET s2 == [s1 EXCEPT !.PublicKey = freerdp_certificate_get_public_key(cert)]
                        IN
                        IF tls.isClientMode
                        THEN /\ \E h \in Hosts, cfg \in HandshakeSettings :
                                    tls_verify_certificate(cert, h, DirectTransport,
                                                           cfg.ext, cfg.ign, FALSE, FALSE)
                             /\ HsReturn(VerifiedResult(TRUE, call'.status),
                                         IF call'.status < 1 THEN freerdp_tls_send_alert(s2) ELSE s2,
                                         [verified |-> TRUE] @@ in2)
                        ELSE /\ HsReturn(VerifiedResult(FALSE, 0), s2, in2)
                             /\ UNCHANGED verifyVars

\* lines 1297-1303
freerdp_tls_set_alert_code(level, description) ==
    /\ tls' = [tls EXCEPT !.alertLevel = level, !.alertDescription = description]
    /\ UNCHANGED hs
    /\ UNCHANGED verifyVars

(***************************************************************************)
(* The BIO read/write path.                                                *)
(***************************************************************************)
MaxLen == 2

Threads == {"t1", "t2"}

SslErrors ==
    { "SSL_ERROR_NONE", "SSL_ERROR_WANT_READ", "SSL_ERROR_WANT_WRITE",
      "SSL_ERROR_WANT_X509_LOOKUP", "SSL_ERROR_SYSCALL", "SSL_ERROR_SSL",
      "SSL_ERROR_ZERO_RETURN" }

RetryFlag == "BIO_FLAGS_SHOULD_RETRY"
ReadFlag == "BIO_FLAGS_READ"
WriteFlag == "BIO_FLAGS_WRITE"
SpecialFlag == "BIO_FLAGS_IO_SPECIAL"

\* line 492: bio_rdp_tls_new
bio_rdp_tls_new == {RetryFlag}

\* lines 128 and 184
BIO_clear_rw_flags(flags) == flags \ {WriteFlag, ReadFlag, SpecialFlag}

\* lines 134-170: the flags after a failed SSL_write
bio_rdp_tls_write_flags(flags, error) ==
    IF error \in {"SSL_ERROR_NONE", "SSL_ERROR_SYSCALL", "SSL_ERROR_SSL"} THEN flags \ {RetryFlag}
    ELSE IF error = "SSL_ERROR_WANT_WRITE" THEN flags \cup {WriteFlag, RetryFlag}
    ELSE IF error = "SSL_ERROR_WANT_READ" THEN flags \cup {ReadFlag, RetryFlag}
    ELSE IF error = "SSL_ERROR_WANT_X509_LOOKUP" THEN flags \cup {SpecialFlag}
    ELSE flags

\* lines 190-236: the flags after a failed SSL_read
bio_rdp_tls_read_flags(flags, error) ==
    IF error \in {"SSL_ERROR_NONE", "SSL_ERROR_SSL", "SSL_ERROR_ZERO_RETURN", "SSL_ERROR_SYSCALL"}
    THEN flags \ {RetryFlag}
    ELSE IF error = "SSL_ERROR_WANT_READ" THEN flags \cup {ReadFlag, RetryFlag}
    ELSE IF error = "SSL_ERROR_WANT_WRITE" THEN flags \cup {WriteFlag, RetryFlag}
    ELSE IF error = "SSL_ERROR_WANT_X509_LOOKUP" THEN flags \cup {SpecialFlag}
    ELSE flags

\* variant: the write path does not wait for the critical section
bio_rdp_tls_write_may_enter_unlocked(l) == TRUE

\* line 129: EnterCriticalSection(&tls->lock) lets the write path in when the lock is free
bio_rdp_tls_write_may_enter(l) == l = None

\* line 185: the same for the read path
bio_rdp_tls_read_may_enter(l) == l = None

\* line 1283: the bound, in milliseconds, of the wait for writability
WriteWaitTimeout == 100

\* line 1278: a failure the BIO does not want retried ends the call with -1
AfterShouldRetry(should_retry) ==
    IF ~should_retry THEN [pc |-> "wa_returned", result |-> -1]
    ELSE [pc |-> "wa_write_blocked", result |-> 0]

\* lines 1281-1286: write-blocked: wait for writability
AfterWriteBlocked(write_blocked) ==
    IF write_blocked THEN "wa_wait" ELSE "wa_read_blocked"

\* lines 1283-1285: a failed wait ends the call with -1, otherwise the loop goes on
AfterWaitWrite(rc) ==
    IF rc < 0 THEN [pc |-> "wa_returned", result |-> -1]
    ELSE [pc |-> "w_clear", result |-> 0]

\* variant: read-blocked is reported as a plain error
AfterReadBlockedAsError(read_blocked) ==
    IF read_blocked THEN [pc |-> "wa_returned", result |-> -1]
    ELSE [pc |-> "w_clear", result |-> 0]

\* lines 1287-1290: read-blocked ends the call with -2, otherwise USleep(100) and loop
AfterReadBlocked(read_blocked) ==
    IF read_blocked THEN [pc |-> "wa_returned", result |-> -2]
    ELSE [pc |-> "w_clear", result |-> 0]

\* variant: the offset is not advanced by what the engine took
NextOffsetStuck(offset, status) == offset

\* lines 1274-1275: offset += status
NextOffset(offset, status) == offset + status

Buffer(length) == [i \in 1..length |-> i]

Idle == [pc |-> "idle", length |-> 0, offset |-> 0, sent |-> <<>>, status |-> 0,
         error |-> None, result |-> 0, waited |-> 0]

Set(t, r) ==
    /\ th' = [th EXCEPT ![t] = r]
    /\ UNCHANGED <<store, accepted, call, tls, hs, firstUse, connVars, rbVars, hmVars, cacheVars>>

\* lines 1260-1272: entry of freerdp_tls_write_all with a length that fits an int,
\* up to the first BIO_write
WriteAllCall(t) ==
    /\ th[t].pc = "idle"
    /\ \E length \in 0..MaxLen :
        LET r == [Idle EXCEPT !.length = length] IN
        IF 0 < length THEN Set(t, [r EXCEPT !.pc = "w_clear"])
        ELSE Set(t, [r EXCEPT !.pc = "wa_returned", !.result = length])
    /\ UNCHANGED <<bioFlags, lock>>

\* line 128
BioWriteClear(t) ==
    /\ th[t].pc = "w_clear"
    /\ bioFlags' = BIO_clear_rw_flags(bioFlags)
    /\ Set(t, [th[t] EXCEPT !.pc = "w_enter", !.status = 0, !.error = None])
    /\ UNCHANGED lock

\* line 129
BioWriteEnter(t) ==
    /\ th[t].pc = "w_enter"
    /\ bio_rdp_tls_write_may_enter(lock)
    /\ lock' = t
    /\ Set(t, [th[t] EXCEPT !.pc = "w_ssl"])
    /\ UNCHANGED bioFlags

\* lines 130-131: SSL_write takes some of the remaining bytes, or fails with an error
BioWriteSsl(t) ==
    /\ th[t].pc = "w_ssl"
    /\ \/ \E n \in 1..(th[t].length - th[t].offset) :
            Set(t, [th[t] EXCEPT !.pc = "w_leave", !.status = n,
                                 !.sent = @ \o SubSeq(Buffer(th[t].length),
                                                      th[t].offset + 1, th[t].offset + n)])
       \/ \E error \in SslErrors :
            Set(t, [th[t] EXCEPT !.pc = "w_leave", !.status = -1, !.error = error])
    /\ UNCHANGED <<bioFlags, lock>>

\* line 132
BioWriteLeave(t) ==
    /\ th[t].pc = "w_leave"
    /\ lock' = IF lock = t THEN None ELSE lock
    /\ Set(t, [th[t] EXCEPT !.pc = "w_flags"])
    /\ UNCHANGED bioFlags

\* lines 134-172, and lines 1274-1275 when the write took bytes
BioWriteFlags(t) ==
    /\ th[t].pc = "w_flags"
    /\ IF th[t].status <= 0
       THEN /\ bioFlags' = bio_rdp_tls_write_flags(bioFlags, th[t].error)
            /\ Set(t, [th[t] EXCEPT !.pc = "wa_should_retry"])
       ELSE /\ UNCHANGED bioFlags
            /\ LET offset == NextOffset(th[t].offset, th[t].status) IN
               IF offset < th[t].length
               THEN Set(t, [th[t] EXCEPT !.pc = "w_clear", !.offset = offset])
               ELSE Set(t, [th[t] EXCEPT !.pc = "wa_returned", !.offset = offset,
                                         !.result = th[t].length])
    /\ UNCHANGED lock

\* line 1278
WriteAllShouldRetry(t) ==
    /\ th[t].pc = "wa_should_retry"
    /\ LET next == AfterShouldRetry(RetryFlag \in bioFlags)
       IN Set(t, [th[t] EXCEPT !.pc = next.pc, !.result = next.result])
    /\ UNCHANGED <<bioFlags, lock>>

\* line 1281
WriteAllWriteBlocked(t) ==
    /\ th[t].pc = "wa_write_blocked"
    /\ Set(t, [th[t] EXCEPT !.pc = AfterWriteBlocked(WriteFlag \in bioFlags)])
    /\ UNCHANGED <<bioFlags, lock>>

\* lines 1283-1285: BIO_wait_write(bio, 100)
WriteAllWait(t) ==
    /\ th[t].pc = "wa_wait"
    /\ \E rc \in {-1, 0, 1} :
        LET next == AfterWaitWrite(rc)
        IN Set(t, [th[t] EXCEPT !.pc = next.pc, !.result = next.result,
                                !.waited = WriteWaitTimeout])
    /\ UNCHANGED <<bioFlags, lock>>

\* lines 1287-1290
WriteAllReadBlocked(t) ==
    /\ th[t].pc = "wa_read_blocked"
    /\ LET next == AfterReadBlocked(ReadFlag \in bioFlags)
       IN Set(t, [th[t] EXCEPT !.pc = next.pc, !.result = next.result])
    /\ UNCHANGED <<bioFlags, lock>>

\* the caller takes the result of freerdp_tls_write_all or BIO_read
IoReturned(t) ==
    /\ th[t].pc \in {"wa_returned", "r_returned"}
    /\ Set(t, Idle)
    /\ UNCHANGED <<bioFlags, lock>>

\* lines 175-184: BIO_read enters bio_rdp_tls_read
BioReadCall(t) ==
    /\ th[t].pc = "idle"
    /\ bioFlags' = BIO_clear_rw_flags(bioFlags)
    /\ Set(t, [Idle EXCEPT !.pc = "r_enter"])
    /\ UNCHANGED lock

\* line 185
BioReadEnter(t) ==
    /\ th[t].pc = "r_enter"
    /\ bio_rdp_tls_read_may_enter(lock)
    /\ lock' = t
    /\ Set(t, [th[t] EXCEPT !.pc = "r_ssl"])
    /\ UNCHANGED bioFlags

\* lines 186-187
BioReadSsl(t) ==
    /\ th[t].pc = "r_ssl"
    /\ \/ Set(t, [th[t] EXCEPT !.pc = "r_leave", !.status = 1])
       \/ \E error \in SslErrors :
            Set(t, [th[t] EXCEPT !.pc = "r_leave", !.status = -1, !.error = error])
    /\ UNCHANGED <<bioFlags, lock>>

\* line 188
BioReadLeave(t) ==
    /\ th[t].pc = "r_leave"
    /\ lock' = IF lock = t THEN None ELSE lock
    /\ Set(t, [th[t] EXCEPT !.pc = "r_flags"])
    /\ UNCHANGED bioFlags

\* lines 190-246
BioReadFlags(t) ==
    /\ th[t].pc = "r_flags"
    /\ bioFlags' = IF th[t].status <= 0 THEN bio_rdp_tls_read_flags(bioFlags, th[t].error)
                   ELSE bioFlags
    /\ Set(t, [th[t] EXCEPT !.pc = "r_returned", !.result = th[t].status])
    /\ UNCHANGED lock

(***************************************************************************)
(* freerdp_tls_connect and pollAndHandshake.                               *)
(***************************************************************************)
NoPoll == [pc |-> "idle", result |-> 0, prepared |-> FALSE, connect_ex |-> None,
           status |-> None, abortAtWait |-> FALSE, eventAtWait |-> FALSE,
           handshakeAfterAbort |-> FALSE, why |-> None]

InitConn ==
    /\ abort = FALSE
    /\ bioEvent = FALSE
    /\ poll = NoPoll

\* the enumerators of TlsHandshakeResult by value (freerdp/crypto/tls.h)
TlsHandshakeResultOf(v) ==
    CASE v = 0 -> "TLS_HANDSHAKE_SUCCESS"
      [] v = 1 -> "TLS_HANDSHAKE_CONTINUE"
      [] v = 2 -> "TLS_HANDSHAKE_ERROR"
      [] OTHER -> "TLS_HANDSHAKE_VERIFY_ERROR"

\* lines 913-914: what freerdp_tls_connect_ex returns when tls_prepare fails
ConnectExPrepareFailed == TlsHandshakeResultOf(0)

\* lines 1056-1070: the switch of freerdp_tls_connect
AfterConnectEx(result) ==
    IF result = "TLS_HANDSHAKE_SUCCESS" THEN [pc |-> "returned", result |-> 1]
    ELSE IF result = "TLS_HANDSHAKE_CONTINUE" THEN [pc |-> "poll_get_event", result |-> 0]
    ELSE [pc |-> "returned", result |-> -1]

\* WaitForMultipleObjectsEx on {abort event, BIO event}, any one, no timeout,
\* alertable: the signaled handle of lowest index, or an APC, or a failure
WaitOutcomes(abortSignaled, eventSignaled) ==
    (IF abortSignaled THEN {"WAIT_OBJECT_0"}
     ELSE IF eventSignaled THEN {"WAIT_OBJECT_0 + 1"}
     ELSE {})
    \cup {"WAIT_IO_COMPLETION", "WAIT_FAILED"}

\* lines 1020-1035: the switch on the wait's status
AfterWait(status) ==
    IF status = "WAIT_OBJECT_0 + 1" THEN [pc |-> "poll_handshake", result |-> 0, why |-> None]
    ELSE IF status = "WAIT_OBJECT_0" THEN [pc |-> "returned", result |-> -1, why |-> "abort"]
    ELSE IF status \in {"WAIT_TIMEOUT", "WAIT_IO_COMPLETION"}
    THEN [pc |-> "poll_get_event", result |-> 0, why |-> None]
    ELSE [pc |-> "returned", result |-> -1, why |-> "wait"]

\* variant: a verification error does not end the polling
AfterPollHandshakeVerifyErrorGoesOn(result) ==
    IF result \in {"TLS_HANDSHAKE_CONTINUE", "TLS_HANDSHAKE_VERIFY_ERROR"}
    THEN [pc |-> "poll_get_event", result |-> 0]
    ELSE IF result = "TLS_HANDSHAKE_SUCCESS" THEN [pc |-> "returned", result |-> 1]
    ELSE [pc |-> "returned", result |-> -1]

\* lines 1037-1048: the switch on the handshake's result
AfterPollHandshake(result) ==
    IF result = "TLS_HANDSHAKE_CONTINUE" THEN [pc |-> "poll_get_event", result |-> 0]
    ELSE IF result = "TLS_HANDSHAKE_SUCCESS" THEN [pc |-> "returned", result |-> 1]
    ELSE [pc |-> "returned", result |-> -1]

(***************************************************************************)
(* The bitmap cache (libfreerdp/cache/bitmap.c).                           *)
(***************************************************************************)
MaxBitmaps == 2

\* settings BitmapCacheV2NumCells and BitmapCacheV2CellInfo[i].numEntries
BitmapCacheV2NumCells == 2
numEntries(i) == 1

NULL == 0
Handles == 1..MaxBitmaps

\* the reserved index of a cell's extra slot (freerdp/update.h)
BITMAP_CACHE_WAITING_LIST_INDEX == 32767

\* lines 382-394: cell i has capacity numEntries(i) and one extra slot
bitmap_cache_new ==
    [i \in 0..(BitmapCacheV2NumCells - 1) |->
        [number |-> numEntries(i), entries |-> [j \in 0..numEntries(i) |-> NULL]]]

maxCells == BitmapCacheV2NumCells

\* the slots the cache owns
Slots == UNION { { <<i, j>> : j \in 0..numEntries(i) } : i \in 0..(maxCells - 1) }

\* the cell ids and indexes an operation or order may carry
CellIds == 0..(maxCells + 1)
Indexes == (0..(numEntries(maxCells - 1) + 1)) \cup {BITMAP_CACHE_WAITING_LIST_INDEX}

NoBitmap == [state |-> "unallocated", frees |-> 0, key64 |-> 0, width |-> 0, height |-> 0]

\* the record of an operation; `put` remembers per slot the bitmap of the last
\* bitmap_cache_put that addressed it, `outside` that memory outside the cells
\* and their slots was read or written, `crashed` that the process is gone
NoOp == [name |-> None, id |-> 0, index |-> 0, bitmap |-> NULL, result |-> FALSE,
         log |-> None, outside |-> FALSE, crashed |-> FALSE,
         put |-> [s \in Slots |-> NULL], before |-> bitmap_cache_new,
         step |-> None, prevBitmap |-> NULL, ColorDepth |-> 0, orderBpp |-> 0,
         dataBpp |-> 0, bpp |-> 0, callback |-> FALSE, style |-> 0,
         styleAtCallback |-> 0, styleAfter |-> 0, key64 |-> 0,
         version |-> 0, persistEnabled |-> FALSE, persistFile |-> FALSE,
         opened |-> FALSE, written |-> {}, status |-> 0,
         width |-> 1, height |-> 1, writeFailed |-> FALSE,
         bitmapsBefore |-> [b \in Handles |-> NoBitmap]]

\* variant: the reserved index selects the last regular slot
EffectiveIndexNoExtraSlot(number, index) ==
    IF index = BITMAP_CACHE_WAITING_LIST_INDEX THEN number - 1 ELSE index

\* lines 230-232, 252-254: the slot an index selects in a cell of capacity number
EffectiveIndex(number, index) ==
    IF index = BITMAP_CACHE_WAITING_LIST_INDEX THEN number ELSE index

\* lines 234, 256: an index that is not the reserved one and exceeds the capacity
InvalidIndex(number, index) ==
    index # BITMAP_CACHE_WAITING_LIST_INDEX /\ index > number

\* lines 220-242
bitmap_cache_get(c, id, index) ==
    IF id >= maxCells
    THEN [bitmap |-> NULL, log |-> "WLog_ERR: get invalid bitmap cell id"]
    ELSE IF InvalidIndex(c[id].number, index)
    THEN [bitmap |-> NULL, log |-> "WLog_ERR: get invalid bitmap index"]
    ELSE [bitmap |-> c[id].entries[EffectiveIndex(c[id].number, index)], log |-> None]

\* variant: a slot keeps its first bitmap
StoreEntryKeepFirst(entries, index, bitmap) ==
    IF entries[index] # NULL THEN entries ELSE [entries EXCEPT ![index] = bitmap]

\* line 262: cells[id].entries[index] = bitmap
StoreEntry(entries, index, bitmap) == [entries EXCEPT ![index] = bitmap]

\* line 246 lets id == maxCells through, and lines 252-262 then read
\* cells[maxCells] behind the cells array and write through the pointer found
\* there: the call may find the index invalid, may write somewhere in memory
\* and report success, or may end the process
PutBehindCells(c) ==
    { [result |-> FALSE, cells |-> c, log |-> "WLog_ERR: put invalid bitmap index",
       outside |-> TRUE, crashed |-> FALSE],
      [result |-> TRUE, cells |-> c, log |-> None, outside |-> TRUE, crashed |-> FALSE],
      [result |-> FALSE, cells |-> c, log |-> None, outside |-> TRUE, crashed |-> TRUE] }

\* lines 244-264: the outcomes of bitmap_cache_put
bitmap_cache_put(c, id, index, bitmap) ==
    IF id > maxCells
    THEN { [result |-> FALSE, cells |-> c, log |-> "WLog_ERR: put invalid bitmap cell id",
            outside |-> FALSE, crashed |-> FALSE] }
    ELSE IF id = maxCells
    THEN PutBehindCells(c)
    ELSE IF InvalidIndex(c[id].number, index)
    THEN { [result |-> FALSE, cells |-> c, log |-> "WLog_ERR: put invalid bitmap index",
            outside |-> FALSE, crashed |-> FALSE] }
    ELSE { [result |-> TRUE,
            cells |-> [c EXCEPT ![id].entries =
                          StoreEntry(@, EffectiveIndex(c[id].number, index), bitmap)],
            log |-> None, outside |-> FALSE, crashed |-> FALSE] }

\* the slot a call addresses, if its id and index name one
Addressed(id, index) ==
    IF id < maxCells /\ ~InvalidIndex(numEntries(id), index)
    THEN {<<id, EffectiveIndex(numEntries(id), index)>>}
    ELSE {}

InitCache ==
    /\ cells = bitmap_cache_new
    /\ bitmaps = [b \in Handles |-> NoBitmap]
    /\ op = NoOp

(***************************************************************************)
(* The ring buffer (freerdp/utils/ringbuffer.h).  Its implementation is    *)
(* outside the sources at hand: the operations follow the specification's  *)
(* ring buffer and what the test (TestRingBuffer, test_overlaps) expects   *)
(* of them.                                                                *)
(***************************************************************************)
MaxUsed == 5
MaxWrite == 3

\* the capacities given to ringbuffer_init
InitialSizes == {4, 5}

\* the k-th byte a writer hands over has the value ByteOf(k)
ByteMod == 8
ByteOf(k) == k % ByteMod

Min(a, b) == IF a < b THEN a ELSE b

ringbuffer_init(initialSize) ==
    [buffer |-> [i \in 0..(initialSize - 1) |-> 0], size |-> initialSize,
     initialSize |-> initialSize, readPtr |-> 0, writePtr |-> 0, freeSize |-> initialSize]

ringbuffer_used(r) == r.size - r.freeSize
ringbuffer_capacity(r) == r.size

\* the bytes in the buffer, oldest first
Content(r) ==
    [k \in 1..ringbuffer_used(r) |-> r.buffer[(r.readPtr + k - 1) % r.size]]

\* variant: the bytes are copied as they lie in the old buffer
ringbuffer_realloc_in_place(r, targetSize) ==
    [r EXCEPT !.buffer = [i \in 0..(targetSize - 1) |-> IF i < r.size THEN r.buffer[i] ELSE 0],
              !.size = targetSize,
              !.freeSize = targetSize - ringbuffer_used(r)]

\* the buffer gets a new size; its content is kept, in order, from index 0 on
ringbuffer_realloc(r, targetSize) ==
    [r EXCEPT !.buffer = [i \in 0..(targetSize - 1) |->
                             IF i < ringbuffer_used(r) THEN Content(r)[i + 1] ELSE 0],
              !.size = targetSize,
              !.readPtr = 0,
              !.writePtr = ringbuffer_used(r) % targetSize,
              !.freeSize = targetSize - ringbuffer_used(r)]

\* the size a buffer grows to when sz more bytes do not fit
\* (test_overlaps: 5 slots and a write of 6 give 11 slots)
GrowTarget(r, sz) == r.size + sz

\* the buffer grows unless sz bytes leave a free one (TestRingBuffer: 10
\* slots and three writes of 5 give 20 slots, the data then splits 10 and 1)
Grown(r, sz) == IF r.freeSize <= sz THEN ringbuffer_realloc(r, GrowTarget(r, sz)) ELSE r

\* the bytes go to writePtr and on, around the end of the buffer
Stored(r, bytes) ==
    [r EXCEPT !.buffer = [i \in 0..(r.size - 1) |->
                             LET k == (i - r.writePtr + r.size) % r.size
                             IN IF k < Len(bytes) THEN bytes[k + 1] ELSE r.buffer[i]],
              !.writePtr = (r.writePtr + Len(bytes)) % r.size,
              !.freeSize = r.freeSize - Len(bytes)]

ringbuffer_write(r, bytes) == Stored(Grown(r, Len(bytes)), bytes)

\* sz contiguous bytes at writePtr: the buffer grows when they do not fit, and
\* its content moves to the front when they would run over the end
ringbuffer_ensure_linear_write(r, sz) ==
    LET g == Grown(r, sz)
    IN IF g.writePtr + sz <= g.size /\ (g.writePtr > g.readPtr \/ ringbuffer_used(g) = 0
                                        \/ g.writePtr + sz <= g.readPtr)
       THEN g
       ELSE ringbuffer_realloc(g, g.size)

\* the writer has filled sz bytes at writePtr
ringbuffer_commit_written_bytes(r, sz) ==
    [r EXCEPT !.writePtr = (r.writePtr + sz) % r.size, !.freeSize = r.freeSize - sz]

\* variant: one span, cut at the end of the buffer
ringbuffer_peek_one_span(r, sz) ==
    LET n == Min(Min(sz, ringbuffer_used(r)), r.size - r.readPtr)
    IN IF n = 0 THEN <<>> ELSE << [start |-> r.readPtr, size |-> n] >>

\* at most two spans of min(sz, used) bytes: from readPtr to the end of the
\* buffer, and from index 0
ringbuffer_peek(r, sz) ==
    LET n == Min(sz, ringbuffer_used(r))
        first == Min(n, r.size - r.readPtr)
    IN IF n = 0 THEN <<>>
       ELSE IF first = n THEN << [start |-> r.readPtr, size |-> n] >>
       ELSE << [start |-> r.readPtr, size |-> first], [start |-> 0, size |-> n - first] >>

\* variant: the buffer keeps the size it has grown to
ShrinksNever(r) == FALSE

\* TestRingBuffer, test_overlaps: a grown buffer that is (nearly) drained
\* goes back to its initial size
Shrinks(r) == r.size # r.initialSize /\ ringbuffer_used(r) < r.initialSize \div 2

\* variant: a drained buffer is cut to half its initial size
ShrinkTargetHalf(r) == r.initialSize \div 2

ShrinkTarget(r) == r.initialSize

\* the reader is done with sz bytes, or with all there are if those are fewer
ringbuffer_commit_read_bytes(r, sz) ==
    LET n == Min(sz, ringbuffer_used(r))
        read == [r EXCEPT !.readPtr = (r.readPtr + n) % r.size, !.freeSize = r.freeSize + n]
    IN IF Shrinks(read) THEN ringbuffer_realloc(read, ShrinkTarget(read)) ELSE read

\* the bytes the spans of a peek show
ChunkBytes(r, chunks) ==
    IF Len(chunks) = 0 THEN <<>>
    ELSE IF Len(chunks) = 1
    THEN [k \in 1..chunks[1].size |-> r.buffer[chunks[1].start + k - 1]]
    ELSE [k \in 1..chunks[1].size |-> r.buffer[chunks[1].start + k - 1]]
         \o [k \in 1..chunks[2].size |-> r.buffer[chunks[2].start + k - 1]]

\* written and read count the bytes handed over and the bytes given back
NoRbOp == [name |-> None, sz |-> 0, chunks |-> <<>>, bytes |-> <<>>,
           written |-> 0, read |-> 0, grown |-> FALSE]

InitRb ==
    /\ rb = ringbuffer_init(4)
    /\ rbOp = NoRbOp

(***************************************************************************)
(* Trust policy specification: any sequence of verifications against a     *)
(* known-hosts store left by earlier sessions.                             *)
(***************************************************************************)
InitStore ==
    /\ store \in [Hosts -> Certs \cup {None}]
    /\ accepted = [k \in AcceptedKeys |-> None]
    /\ call = NoCall

NoFirstUse == [cert |-> None]

InitIo(threads) ==
    /\ bioFlags = bio_rdp_tls_new
    /\ lock = None
    /\ th = [t \in threads |-> Idle]

InitVerify ==
    /\ InitStore
    /\ tls = freerdp_tls_new(TRUE, FALSE)
    /\ hs = NoHs
    /\ firstUse = NoFirstUse
    /\ InitIo(Threads)
    /\ InitConn
    /\ InitCache
    /\ InitRb
    /\ InitHm

\* a call starts when the previous one has been consumed by its caller
Verify ==
    /\ call = NoCall
    /\ \E c \in Certs, h \in Hosts, t \in Transports,
          ext \in BOOLEAN, ign \in BOOLEAN, autoAccept \in BOOLEAN, autoDeny \in BOOLEAN :
            tls_verify_certificate(c, h, t, ext, ign, autoAccept, autoDeny)
    /\ UNCHANGED <<hsVars, firstUse, ioVars, connVars, rbVars, hmVars, cacheVars>>

\* the caller has looked at the result; the record of the call is dropped
VerifyReturned ==
    /\ call # NoCall
    /\ call' = NoCall
    /\ UNCHANGED <<store, accepted>>
    /\ UNCHANGED <<hsVars, firstUse, ioVars, connVars, rbVars, hmVars, cacheVars>>

NextVerify == Verify \/ VerifyReturned

SpecVerify == InitVerify /\ [][NextVerify]_vars

(***************************************************************************)
(* Handshake specification: a session in either role, on either build,     *)
(* whose owner sets alert codes and drives handshakes.                     *)
(***************************************************************************)
InitHandshake ==
    /\ InitStore
    /\ \E isClientMode \in BOOLEAN, legacyOpenSSL \in BOOLEAN :
            tls = freerdp_tls_new(isClientMode, legacyOpenSSL)
    /\ hs = NoHs
    /\ firstUse = NoFirstUse
    /\ InitIo(Threads)
    /\ InitConn
    /\ InitCache
    /\ InitRb
    /\ InitHm

Handshake ==
    /\ hs = NoHs
    /\ freerdp_tls_handshake
    /\ UNCHANGED <<firstUse, ioVars, connVars, rbVars, hmVars, cacheVars>>

HandshakeReturned ==
    /\ hs # NoHs
    /\ hs' = NoHs
    /\ call' = NoCall
    /\ UNCHANGED <<store, accepted, tls, firstUse, ioVars, connVars, rbVars, hmVars, cacheVars>>

SetAlertCode ==
    /\ hs = NoHs
    /\ \E level \in AlertLevels, description \in AlertDescriptions :
            freerdp_tls_set_alert_code(level, description)
    /\ UNCHANGED <<firstUse, ioVars, connVars, rbVars, hmVars, cacheVars>>

NextHandshake == Handshake \/ HandshakeReturned \/ SetAlertCode

SpecHandshake == InitHandshake /\ [][NextHandshake]_vars

(***************************************************************************)
(* First-use specification: a direct session with default settings (no     *)
(* external management, no ignore-certificate, no auto-accept or -deny)    *)
(* verifies certificates one call after the other; firstUse remembers the  *)
(* previous call when it verified, by chain and name, a certificate of a   *)
(* host the store did not know.                                            *)
(***************************************************************************)
FirstUseOf(c, st, acc) ==
    IF c.path = "verified" /\ c.storeBefore[c.host] = None
    THEN [cert |-> c.cert, host |-> c.host, transport |-> c.transport, status |-> c.status,
          cb |-> c.cb.name, storeAfter |-> st, acceptedAfter |-> acc[keyAccepted(c.transport)]]
    ELSE NoFirstUse

InitFirstUse ==
    /\ store = [h \in Hosts |-> None]
    /\ accepted = [k \in AcceptedKeys |-> None]
    /\ call = NoCall
    /\ tls = freerdp_tls_new(TRUE, FALSE)
    /\ hs = NoHs
    /\ firstUse = NoFirstUse
    /\ InitIo(Threads)
    /\ InitConn
    /\ InitCache
    /\ InitRb
    /\ InitHm

SessionVerify ==
    /\ call = NoCall
    /\ \E c \in Certs, h \in Hosts, t \in Transports :
            tls_verify_certificate(c, h, t, FALSE, FALSE, FALSE, FALSE)
    /\ UNCHANGED <<hsVars, firstUse, ioVars, connVars, rbVars, hmVars, cacheVars>>

SessionVerifyReturned ==
    /\ call # NoCall
    /\ firstUse' = FirstUseOf(call, store, accepted)
    /\ call' = NoCall
    /\ UNCHANGED <<store, accepted, hsVars, ioVars, connVars, rbVars, hmVars, cacheVars>>

NextFirstUse == SessionVerify \/ SessionVerifyReturned

SpecFirstUse == InitFirstUse /\ [][NextFirstUse]_vars

(***************************************************************************)
(* I/O specifications.  SpecIo: two threads, each calling                  *)
(* freerdp_tls_write_all or BIO_read on the same BIO, step by step.        *)
(* SpecWriteAll: the same calls made by a single caller.                   *)
(***************************************************************************)
InitIoSpec(threads) ==
    /\ store = [h \in Hosts |-> None]
    /\ accepted = [k \in AcceptedKeys |-> None]
    /\ call = NoCall
    /\ tls = freerdp_tls_new(TRUE, FALSE)
    /\ hs = NoHs
    /\ firstUse = NoFirstUse
    /\ InitIo(threads)
    /\ InitConn
    /\ InitCache
    /\ InitRb
    /\ InitHm

NextIo ==
    \/ \E t \in DOMAIN th : WriteAllCall(t)
    \/ \E t \in DOMAIN th : BioWriteClear(t)
    \/ \E t \in DOMAIN th : BioWriteEnter(t)
    \/ \E t \in DOMAIN th : BioWriteSsl(t)
    \/ \E t \in DOMAIN th : BioWriteLeave(t)
    \/ \E t \in DOMAIN th : BioWriteFlags(t)
    \/ \E t \in DOMAIN th : WriteAllShouldRetry(t)
    \/ \E t \in DOMAIN th : WriteAllWriteBlocked(t)
    \/ \E t \in DOMAIN th : WriteAllWait(t)
    \/ \E t \in DOMAIN th : WriteAllReadBlocked(t)
    \/ \E t \in DOMAIN th : BioReadCall(t)
    \/ \E t \in DOMAIN th : BioReadEnter(t)
    \/ \E t \in DOMAIN th : BioReadSsl(t)
    \/ \E t \in DOMAIN th : BioReadLeave(t)
    \/ \E t \in DOMAIN th : BioReadFlags(t)
    \/ \E t \in DOMAIN th : IoReturned(t)

SpecIo == InitIoSpec(Threads) /\ [][NextIo]_vars

SingleCaller == {"t1"}

SpecWriteAll == InitIoSpec(SingleCaller) /\ [][NextIo]_vars

\* Bitmap_Alloc: a new rdpBitmap object
Bitmap_Alloc(bm) ==
    CHOOSE b \in Handles :
        /\ bm[b].state = "unallocated"
        /\ \A a \in Handles : a < b => bm[a].state # "unallocated"

\* Bitmap_Free: nothing for NULL, else the object is released (once more);
\* what it held is gone
Bitmap_Free(bm, b) ==
    IF b = NULL THEN bm
    ELSE [bm EXCEPT ![b] = [NoBitmap EXCEPT !.state = "freed", !.frees = bm[b].frees + 1]]

\* variant: the previous bitmap of the slot is left alone
FreePreviousNever(bm, prevBitmap) == bm

\* lines 125, 168, 211: Bitmap_Free(context, prevBitmap)
FreePrevious(bm, prevBitmap) == Bitmap_Free(bm, prevBitmap)

\* variant: bitmapBpp 16 is kept whatever the color depth
NormalizedBppKeeps16(bitmapBpp, ColorDepth) ==
    IF bitmapBpp = 0 THEN ColorDepth ELSE bitmapBpp

\* lines 147-151: bitmapBpp of a CacheBitmapV2 order after the two adjustments
NormalizedBpp(bitmapBpp, ColorDepth) ==
    LET defaulted == IF bitmapBpp = 0 THEN ColorDepth ELSE bitmapBpp
    IN IF ColorDepth = 15 /\ defaulted = 16 THEN ColorDepth ELSE defaulted

\* lines 193-194, 202-204: a CacheBitmapV3 order's bpp is defaulted, and the
\* decoder is handed bitmapData->bpp
DecodedBppV3(bpp, bitmapDataBpp, ColorDepth) == bitmapDataBpp

\* the cache ids a MemBlt / Mem3Blt order may carry; 0xFF names the offscreen
\* cache, and the id is cut to a BYTE before bitmap_cache_get sees it
BltCacheIds == CellIds \cup {255, 257}

\* the offscreen bitmap of a drawing order with cacheId 0xFF, if there is one
OffscreenBitmap == MaxBitmaps + 1

\* lines 54-57, 74-77: where a drawing order takes its bitmap from
BltSource(c, cacheId, cacheIndex, found) ==
    IF cacheId = 255
    THEN [bitmap |-> IF found THEN OffscreenBitmap ELSE NULL, log |-> None]
    ELSE bitmap_cache_get(c, cacheId % 256, cacheIndex)

\* variant: a drawing order without its bitmap fails
AbsentBitmapResultFails == FALSE

\* lines 59-61, 79-81: a drawing order whose bitmap is absent
AbsentBitmapResult == TRUE

\* brush styles: 0x03, and 0x80 | 0x03 with the CACHED_BRUSH flag (0x80)
BrushStyles == {3, 131}
IsCachedBrush(style) == (style \div 128) % 2 = 1

\* lines 86-94: the style the Mem3Blt callback sees
StyleForDrawing(style) == IF IsCachedBrush(style) THEN 3 ELSE style

\* variant: the style is left as the drawing call saw it
StyleAfterDrawingNotRestored(style) == StyleForDrawing(style)

\* line 97: brush->style = style
StyleAfterDrawing(style) == style

\* key1 | key2 << 32 of a CacheBitmapV2 / V3 order: zero or not
Keys == {0, 7}

\* color depths of the session and bpp values of the orders
ColorDepths == {15, 32}
OrderBpps == {0, 16}
DataBpps == {0, 32}

\* the steps of a handler that can fail before the cache is touched
Steps == {"Bitmap_SetDimensions", "Decompress", "New"}

\* lines 106, 139-145, 185-191: the new bitmap, with the key64 the handler gives it
Allocated(bm, bitmap, key64) ==
    [bm EXCEPT ![bitmap].state = "live", ![bitmap].key64 = key64]

\* width and height of the bitmap of a CacheBitmapV2 order that has a key
\* (the other orders carry bitmaps of 1 x 1 here)
Dimensions == {<<1, 1>>, <<32768, 32768>>}

\* Bitmap_SetDimensions
Bitmap_SetDimensions(bm, bitmap, width, height) ==
    [bm EXCEPT ![bitmap].width = width, ![bitmap].height = height]

\* variant: the previous bitmap of the slot is freed before the failure shows
OrderFailedFreesPrevious(name, rec, bitmap, step, log) ==
    /\ bitmaps' = Bitmap_Free(Bitmap_Free(Allocated(bitmaps, bitmap, (rec @@ NoOp).key64),
                                          bitmap),
                              bitmap_cache_get(cells, rec.id, rec.index).bitmap)
    /\ cells' = cells
    /\ op' = [name |-> name, bitmap |-> bitmap, result |-> FALSE, step |-> step,
              log |-> log, before |-> cells] @@ rec @@ NoOp

\* the goto fail of the three handlers: the new bitmap is freed
OrderFailed(name, rec, bitmap, step, log) ==
    /\ bitmaps' = Bitmap_Free(Allocated(bitmaps, bitmap, (rec @@ NoOp).key64), bitmap)
    /\ cells' = cells
    /\ op' = [name |-> name, bitmap |-> bitmap, result |-> FALSE, step |-> step,
              log |-> log, before |-> cells] @@ rec @@ NoOp

\* prevBitmap = bitmap_cache_get(...); Bitmap_Free(context, prevBitmap);
\* return bitmap_cache_put(...)
OrderInstalls(name, rec, bitmap) ==
    LET got == bitmap_cache_get(cells, rec.id, rec.index)
    IN \E out \in bitmap_cache_put(cells, rec.id, rec.index, bitmap) :
        /\ bitmaps' = FreePrevious(
                          Bitmap_SetDimensions(Allocated(bitmaps, bitmap, (rec @@ NoOp).key64),
                                               bitmap, (rec @@ NoOp).width, (rec @@ NoOp).height),
                          got.bitmap)
        /\ cells' = out.cells
        /\ op' = [name |-> name, bitmap |-> bitmap, prevBitmap |-> got.bitmap,
                  result |-> out.result, step |-> "bitmap_cache_put",
                  log |-> IF got.log # None THEN got.log ELSE out.log,
                  outside |-> out.outside, crashed |-> out.crashed,
                  before |-> cells] @@ rec @@ NoOp

\* settings BitmapCacheVersion
CacheVersions == {2, 3}

\* variant: the cache version is not looked at
PersistentCacheWantedAnyVersion(version, enabled, file) == enabled /\ file

\* lines 295-306: the three settings bitmap_cache_save_persistent asks for
PersistentCacheWanted(version, enabled, file) == version = 2 /\ enabled /\ file

\* UINT32_MAX / 4: the most pixels whose size 4 * width * height fits in 32 bits
PixelsMax == 1073741823

\* variant: the key of the bitmap is not looked at
PersistableAnyKey(c, bm, s) ==
    /\ c[s[1]].entries[s[2]] # NULL
    /\ bm[c[s[1]].entries[s[2]]].width * bm[c[s[1]].entries[s[2]]].height <= PixelsMax

\* lines 323-334: a slot whose bitmap goes to the persistent cache file
Persistable(c, bm, s) ==
    /\ c[s[1]].entries[s[2]] # NULL
    /\ bm[c[s[1]].entries[s[2]]].key64 # 0
    /\ bm[c[s[1]].entries[s[2]]].width * bm[c[s[1]].entries[s[2]]].height <= PixelsMax

\* lines 318-321: the loops visit cell after cell, and in a cell slot after slot
VisitedBefore(t, s) == t[1] < s[1] \/ (t[1] = s[1] /\ t[2] < s[2])

\* how many calls of persistent_cache_write_entry succeed before one fails
WriteBudgets == {0, 1, Cardinality(Slots)}

\* lines 290-356: `opened` says that persistent_cache_open succeeds, `budget`
\* how many entries persistent_cache_write_entry takes before it fails
bitmap_cache_save_persistent(c, bm, version, enabled, file, opened, budget) ==
    LET wanted == {s \in Slots : Persistable(c, bm, s)}
    IN IF ~PersistentCacheWanted(version, enabled, file)
       THEN [status |-> 0, opened |-> FALSE, written |-> {}, writeFailed |-> FALSE]
       ELSE IF ~opened
       THEN [status |-> 0, opened |-> FALSE, written |-> {}, writeFailed |-> FALSE]
       ELSE IF Cardinality(wanted) <= budget
       THEN [status |-> 1, opened |-> TRUE, written |-> wanted, writeFailed |-> FALSE]
       ELSE [status |-> -1, opened |-> TRUE, writeFailed |-> TRUE,
             written |-> {s \in wanted :
                            Cardinality({t \in wanted : VisitedBefore(t, s)}) < budget}]

(***************************************************************************)
(* SpecCache: any sequence of bitmap_cache_put and bitmap_cache_get calls   *)
(* on a cache made by bitmap_cache_new, with any cell id and index.        *)
(***************************************************************************)
InitCacheSpec ==
    /\ store = [h \in Hosts |-> None]
    /\ accepted = [k \in AcceptedKeys |-> None]
    /\ call = NoCall
    /\ tls = freerdp_tls_new(TRUE, FALSE)
    /\ hs = NoHs
    /\ firstUse = NoFirstUse
    /\ InitIo(Threads)
    /\ InitConn
    /\ InitCache
    /\ InitRb
    /\ InitHm

CachePut ==
    /\ ~op.crashed
    /\ \E id \in CellIds, index \in Indexes, bitmap \in Handles :
        \E out \in bitmap_cache_put(cells, id, index, bitmap) :
            /\ cells' = out.cells
            /\ op' = [name |-> "bitmap_cache_put", id |-> id, index |-> index,
                      bitmap |-> bitmap, result |-> out.result, log |-> out.log,
                      outside |-> out.outside, crashed |-> out.crashed,
                      put |-> [s \in Slots |->
                                 IF s \in Addressed(id, index) THEN bitmap ELSE op.put[s]],
                      before |-> cells]
    /\ UNCHANGED <<verifyVars, hsVars, firstUse, ioVars, connVars, rbVars, hmVars, bitmaps>>

CacheGet ==
    /\ ~op.crashed
    /\ \E id \in CellIds, index \in Indexes :
        LET out == bitmap_cache_get(cells, id, index)
        IN op' = [name |-> "bitmap_cache_get", id |-> id, index |-> index,
                  bitmap |-> out.bitmap, result |-> out.bitmap # NULL, log |-> out.log,
                  outside |-> FALSE, crashed |-> FALSE, put |-> op.put, before |-> cells]
    /\ UNCHANGED <<verifyVars, hsVars, firstUse, ioVars, connVars, rbVars, hmVars, cells, bitmaps>>

NextCache ==
    \/ CachePut
    \/ CacheGet

SpecCache == InitCacheSpec /\ [][NextCache]_vars

(***************************************************************************)
(* SpecOrders: any sequence of cache orders (CacheBitmap v1, v2, v3) and   *)
(* drawing orders (MemBlt, Mem3Blt) on a cache made by bitmap_cache_new,   *)
(* ended by bitmap_cache_free.                                             *)
(***************************************************************************)
CacheAlive == ~op.crashed /\ op.name # "bitmap_cache_free"
CanAlloc == \E b \in Handles : bitmaps[b].state = "unallocated"

\* lines 101-131
CacheBitmap ==
    /\ op = NoOp
    /\ CanAlloc
    /\ \E cacheId \in CellIds, cacheIndex \in Indexes, step \in Steps \cup {None} :
        LET bitmap == Bitmap_Alloc(bitmaps)
            name == "update_gdi_cache_bitmap"
        IN IF step = "Bitmap_SetDimensions"
           THEN OrderFailed(name, [id |-> cacheId, index |-> cacheIndex], bitmap, step, None)
           ELSE \E bitmapBpp \in OrderBpps \cup DataBpps :
                LET rec == [id |-> cacheId, index |-> cacheIndex,
                            orderBpp |-> bitmapBpp, bpp |-> bitmapBpp]
                IN IF step # None
                   THEN OrderFailed(name, rec, bitmap, step, None)
                   ELSE OrderInstalls(name, rec, bitmap)
    /\ UNCHANGED <<verifyVars, hsVars, firstUse, ioVars, connVars, rbVars, hmVars>>

\* lines 133-175
CacheBitmapV2 ==
    /\ op = NoOp
    /\ CanAlloc
    /\ \E cacheId \in CellIds, cacheIndex \in Indexes, step \in Steps \cup {None},
          ColorDepth \in ColorDepths, bitmapBpp \in OrderBpps, key64 \in Keys :
      \E dim \in (IF step = None /\ key64 # 0 THEN Dimensions ELSE {<<1, 1>>}) :
        LET bitmap == Bitmap_Alloc(bitmaps)
            name == "update_gdi_cache_bitmap_v2"
            rec == [id |-> cacheId, index |-> cacheIndex, ColorDepth |-> ColorDepth,
                    key64 |-> key64, width |-> dim[1], height |-> dim[2],
                    orderBpp |-> bitmapBpp,
                    bpp |-> IF step = "Bitmap_SetDimensions" THEN 0
                            ELSE NormalizedBpp(bitmapBpp, ColorDepth)]
        IN IF step \in {"Bitmap_SetDimensions", "Decompress"}
           THEN OrderFailed(name, rec, bitmap, step, None)
           ELSE IF step = "New"
           THEN OrderFailed(name, rec, bitmap, step,
                            bitmap_cache_get(cells, cacheId, cacheIndex).log)
           ELSE OrderInstalls(name, rec, bitmap)
    /\ UNCHANGED <<verifyVars, hsVars, firstUse, ioVars, connVars, rbVars, hmVars>>

\* lines 177-218
CacheBitmapV3 ==
    /\ op = NoOp
    /\ CanAlloc
    /\ \E cacheId \in CellIds, cacheIndex \in Indexes, step \in Steps \cup {None},
          ColorDepth \in ColorDepths, bpp \in OrderBpps, bitmapDataBpp \in DataBpps,
          key64 \in Keys :
        LET bitmap == Bitmap_Alloc(bitmaps)
            name == "update_gdi_cache_bitmap_v3"
            rec == [id |-> cacheId, index |-> cacheIndex, ColorDepth |-> ColorDepth,
                    key64 |-> key64,
                    orderBpp |-> bpp,
                    dataBpp |-> bitmapDataBpp,
                    bpp |-> IF step = "Bitmap_SetDimensions" THEN 0
                            ELSE DecodedBppV3(bpp, bitmapDataBpp, ColorDepth)]
        IN IF step # None
           THEN OrderFailed(name, rec, bitmap, step, None)
           ELSE OrderInstalls(name, rec, bitmap)
    /\ UNCHANGED <<verifyVars, hsVars, firstUse, ioVars, connVars, rbVars, hmVars>>

\* the handler has returned to the order dispatcher
OrderReturned ==
    /\ op # NoOp
    /\ CacheAlive
    /\ op' = NoOp
    /\ UNCHANGED <<verifyVars, hsVars, firstUse, ioVars, connVars, rbVars, hmVars, cells, bitmaps>>

\* lines 47-65
MemBlt ==
    /\ op = NoOp
    /\ \E cacheId \in BltCacheIds, cacheIndex \in Indexes,
          found \in BOOLEAN, registered \in BOOLEAN, drawn \in BOOLEAN :
        LET got == BltSource(cells, cacheId, cacheIndex, found)
        IN op' = [name |-> "update_gdi_memblt", id |-> cacheId, index |-> cacheIndex,
                  bitmap |-> got.bitmap, log |-> got.log,
                  callback |-> got.bitmap # NULL /\ registered,
                  result |-> IF got.bitmap = NULL THEN AbsentBitmapResult
                             ELSE IF registered THEN drawn ELSE TRUE,
                  before |-> cells] @@ NoOp
    /\ UNCHANGED <<verifyVars, hsVars, firstUse, ioVars, connVars, rbVars, hmVars, cells, bitmaps>>

\* lines 67-99
Mem3Blt ==
    /\ op = NoOp
    /\ \E cacheId \in BltCacheIds, cacheIndex \in Indexes, found \in BOOLEAN,
          style \in BrushStyles, brushFound \in BOOLEAN,
          registered \in BOOLEAN, drawn \in BOOLEAN :
        LET got == BltSource(cells, cacheId, cacheIndex, found)
            rec == [name |-> "update_gdi_mem3blt", id |-> cacheId, index |-> cacheIndex,
                    bitmap |-> got.bitmap, log |-> got.log, style |-> style,
                    before |-> cells]
        IN op' = IF got.bitmap = NULL
                 THEN [result |-> AbsentBitmapResult, styleAfter |-> style] @@ rec @@ NoOp
                 ELSE IF IsCachedBrush(style) /\ ~brushFound
                 THEN [result |-> FALSE, styleAfter |-> style] @@ rec @@ NoOp
                 ELSE [result |-> IF registered THEN drawn ELSE TRUE,
                       callback |-> registered,
                       styleAtCallback |-> StyleForDrawing(style),
                       styleAfter |-> StyleAfterDrawing(style)] @@ rec @@ NoOp
    /\ UNCHANGED <<verifyVars, hsVars, firstUse, ioVars, connVars, rbVars, hmVars, cells, bitmaps>>

\* lines 405-437: the cache is saved, then every slot of every cell is handed
\* to Bitmap_Free
CacheFree ==
    /\ op = NoOp
    /\ bitmaps' = [b \in Handles |->
                    LET n == Cardinality({s \in Slots : cells[s[1]].entries[s[2]] = b})
                    IN IF n = 0 THEN bitmaps[b]
                       ELSE [NoBitmap EXCEPT !.state = "freed",
                                             !.frees = bitmaps[b].frees + n]]
    /\ cells' = <<>>
    /\ \E version \in CacheVersions, enabled \in BOOLEAN, file \in BOOLEAN,
          opened \in BOOLEAN, budget \in WriteBudgets :
        LET saved == bitmap_cache_save_persistent(cells, bitmaps, version, enabled, file,
                                                  opened, budget)
        IN op' = [name |-> "bitmap_cache_free", before |-> cells, version |-> version,
                  persistEnabled |-> enabled, persistFile |-> file,
                  opened |-> saved.opened, written |-> saved.written,
                  status |-> saved.status, writeFailed |-> saved.writeFailed,
                  bitmapsBefore |-> bitmaps] @@ NoOp
    /\ UNCHANGED <<verifyVars, hsVars, firstUse, ioVars, connVars, rbVars, hmVars>>

NextOrders ==
    \/ CacheBitmap
    \/ CacheBitmapV2
    \/ CacheBitmapV3
    \/ OrderReturned
    \/ MemBlt
    \/ Mem3Blt
    \/ CacheFree

SpecOrders == InitCacheSpec /\ [][NextOrders]_vars

(***************************************************************************)
(* SpecRing: any sequence of writes (ringbuffer_write, or                  *)
(* ringbuffer_ensure_linear_write, a copy and                              *)
(* ringbuffer_commit_written_bytes), peeks and ringbuffer_commit_read_bytes *)
(* on a ring buffer made by ringbuffer_init.                               *)
(***************************************************************************)
InitRing ==
    /\ store = [h \in Hosts |-> None]
    /\ accepted = [k \in AcceptedKeys |-> None]
    /\ call = NoCall
    /\ tls = freerdp_tls_new(TRUE, FALSE)
    /\ hs = NoHs
    /\ firstUse = NoFirstUse
    /\ InitIo(Threads)
    /\ InitConn
    /\ InitCache
    /\ \E initialSize \in InitialSizes : rb = ringbuffer_init(initialSize)
    /\ rbOp = NoRbOp
    /\ InitHm

\* the next sz bytes of the writer
NextBytes(sz) == [k \in 1..sz |-> ByteOf(rbOp.written + k)]

RbDone(name, sz, chunks, bytes, written, read) ==
    /\ rbOp' = [name |-> name, sz |-> sz, chunks |-> chunks, bytes |-> bytes,
                written |-> ByteOf(rbOp.written + written),
                read |-> ByteOf(rbOp.read + read),
                grown |-> rbOp.grown \/ rb'.size > rb.initialSize]
    /\ UNCHANGED <<verifyVars, hsVars, firstUse, ioVars, connVars, cacheVars, hmVars>>

RbWrite ==
    /\ \E sz \in 1..MaxWrite :
        /\ ringbuffer_used(rb) + sz <= MaxUsed
        /\ rb' = ringbuffer_write(rb, NextBytes(sz))
        /\ RbDone("ringbuffer_write", sz, <<>>, <<>>, sz, 0)

\* ringbuffer_ensure_linear_write(sz), a copy of n <= sz bytes to the span,
\* ringbuffer_commit_written_bytes(n)
RbLinearWrite ==
    /\ \E sz \in 1..MaxWrite, n \in 0..MaxWrite :
        /\ n <= sz
        /\ ringbuffer_used(rb) + sz <= MaxUsed
        /\ LET ensured == ringbuffer_ensure_linear_write(rb, sz)
               filled == [ensured EXCEPT !.buffer =
                             [i \in 0..(ensured.size - 1) |->
                                 IF i >= ensured.writePtr /\ i < ensured.writePtr + n
                                 THEN NextBytes(n)[i - ensured.writePtr + 1]
                                 ELSE ensured.buffer[i]]]
           IN rb' = ringbuffer_commit_written_bytes(filled, n)
        /\ RbDone("ringbuffer_ensure_linear_write", sz, <<>>, <<>>, n, 0)

RbPeek ==
    /\ rb' = rb
    /\ \E sz \in 0..(MaxUsed + 1) :
        LET chunks == ringbuffer_peek(rb, sz)
        IN RbDone("ringbuffer_peek", sz, chunks, ChunkBytes(rb, chunks), 0, 0)

RbCommitRead ==
    /\ \E sz \in 0..(MaxUsed + 1) :
        /\ rb' = ringbuffer_commit_read_bytes(rb, sz)
        /\ RbDone("ringbuffer_commit_read_bytes", sz, <<>>, <<>>, 0,
                  Min(sz, ringbuffer_used(rb)))

NextRing ==
    \/ RbWrite
    \/ RbLinearWrite
    \/ RbPeek
    \/ RbCommitRead

SpecRing == InitRing /\ [][NextRing]_vars

(***************************************************************************)
(* SpecHostname: tls_match_hostname on any name of a certificate and any   *)
(* hostname.                                                               *)
(***************************************************************************)
\* the names of the certificate are tried until one matches
MatchHostname ==
    /\ ~hm.called
    /\ ~hm.hostname_match
    /\ \E pattern \in Texts(PatternChars, MaxPattern), hostname \in Texts(HostnameChars, MaxHostname) :
        hm' = [pattern |-> pattern, hostname |-> hostname,
               result |-> tls_match_hostname(pattern, hostname), called |-> TRUE,
               hostname_match |-> FALSE]
    /\ UNCHANGED <<verifyVars, hsVars, firstUse, ioVars, connVars, cacheVars, rbVars>>

\* if (tls_match_hostname(...)) hostname_match = TRUE
MatchHostnameReturned ==
    /\ hm.called
    /\ hm' = [NoHm EXCEPT !.hostname_match = hm.result]
    /\ UNCHANGED <<verifyVars, hsVars, firstUse, ioVars, connVars, cacheVars, rbVars>>

NextHostname == MatchHostname \/ MatchHostnameReturned

InitHostname == InitCacheSpec

SpecHostname == InitHostname /\ [][NextHostname]_vars

(***************************************************************************)
(* SpecConnect: freerdp_tls_connect, and pollAndHandshake step by step,    *)
(* while the application may signal the abort event and the transport its  *)
(* readiness event.                                                        *)
(***************************************************************************)
InitConnect ==
    /\ InitStore
    /\ \E legacyOpenSSL \in BOOLEAN : tls = freerdp_tls_new(TRUE, legacyOpenSSL)
    /\ hs = NoHs
    /\ firstUse = NoFirstUse
    /\ InitIo(Threads)
    /\ InitConn
    /\ InitCache
    /\ InitRb
    /\ InitHm

\* lines 1051-1071, with freerdp_tls_connect_ex (lines 878-923)
Connect ==
    /\ poll.pc = "idle"
    /\ \E prepared \in BOOLEAN :
        IF ~prepared
        THEN /\ LET next == AfterConnectEx(ConnectExPrepareFailed)
                IN poll' = [NoPoll EXCEPT !.pc = next.pc, !.result = next.result,
                                          !.connect_ex = ConnectExPrepareFailed,
                                          !.why = "connect_ex"]
             /\ UNCHANGED <<verifyVars, hsVars>>
        ELSE /\ freerdp_tls_handshake
             /\ LET next == AfterConnectEx(hs'.result)
                IN poll' = [NoPoll EXCEPT !.pc = next.pc, !.result = next.result,
                                          !.prepared = TRUE, !.connect_ex = hs'.result,
                                          !.why = "connect_ex"]
    /\ UNCHANGED <<firstUse, ioVars, abort, bioEvent, cacheVars, rbVars, hmVars>>

\* lines 1006-1019: BIO_get_event
PollGetEvent ==
    /\ poll.pc = "poll_get_event"
    /\ \E ok \in BOOLEAN :
        poll' = IF ok THEN [poll EXCEPT !.pc = "poll_wait"]
                ELSE [poll EXCEPT !.pc = "returned", !.result = -1, !.why = "event"]
    /\ UNCHANGED <<verifyVars, hsVars, firstUse, ioVars, abort, bioEvent, cacheVars, rbVars, hmVars>>

\* lines 1020-1035: WaitForMultipleObjectsEx and the switch on its status
PollWait ==
    /\ poll.pc = "poll_wait"
    /\ \E status \in WaitOutcomes(abort, bioEvent) :
        LET next == AfterWait(status)
        IN poll' = [poll EXCEPT !.pc = next.pc, !.result = next.result, !.why = next.why,
                                !.status = status, !.abortAtWait = abort,
                                !.eventAtWait = bioEvent]
    /\ UNCHANGED <<verifyVars, hsVars, firstUse, ioVars, abort, bioEvent, cacheVars, rbVars, hmVars>>

\* lines 1037-1048: the handshake is invoked again; it may use up the readiness
PollHandshake ==
    /\ poll.pc = "poll_handshake"
    /\ freerdp_tls_handshake
    /\ LET next == AfterPollHandshake(hs'.result)
       IN poll' = [poll EXCEPT !.pc = next.pc, !.result = next.result, !.why = "handshake",
                               !.handshakeAfterAbort = poll.abortAtWait]
    /\ bioEvent' \in BOOLEAN
    /\ UNCHANGED <<firstUse, ioVars, abort, cacheVars, rbVars, hmVars>>

\* the caller takes the result; a new connection attempt starts from scratch
ConnectReturned ==
    /\ poll.pc = "returned"
    /\ poll' = NoPoll
    /\ hs' = NoHs
    /\ call' = NoCall
    /\ abort' = FALSE
    /\ bioEvent' = FALSE
    /\ UNCHANGED <<store, accepted, tls, firstUse, ioVars, cacheVars, rbVars, hmVars>>

\* the transport becomes ready
TransportReady ==
    /\ ~bioEvent
    /\ bioEvent' = TRUE
    /\ UNCHANGED <<verifyVars, hsVars, firstUse, ioVars, abort, poll, cacheVars, rbVars, hmVars>>

\* the application signals the abort event
SignalAbort ==
    /\ ~abort
    /\ abort' = TRUE
    /\ UNCHANGED <<verifyVars, hsVars, firstUse, ioVars, bioEvent, poll, cacheVars, rbVars, hmVars>>

NextConnect ==
    \/ Connect
    \/ PollGetEvent
    \/ PollWait
    \/ PollHandshake
    \/ ConnectReturned
    \/ TransportReady
    \/ SignalAbort

SpecConnect == InitConnect /\ [][NextConnect]_vars

(***************************************************************************)
(* SpecWriteAllAbort: the single caller again, and the application, which  *)
(* may signal the session's abort event at any time.  The caller's thread  *)
(* keeps running (weak fairness of its steps); nothing is assumed about    *)
(* what the engine answers.                                                *)
(***************************************************************************)
NextWriteAllAbort == NextIo \/ SignalAbort

SpecWriteAllAbort ==
    InitIoSpec(SingleCaller) /\ [][NextWriteAllAbort]_vars /\ WF_vars(NextIo)

(***************************************************************************)
(* Properties of the trust policy (SpecVerify).  They speak about the      *)
(* state right after a call: `call` is the record of that call and         *)
(* `store`, `accepted` are what it left behind.                            *)
(***************************************************************************)
Called == call # NoCall

\* what the store would report for the presented certificate, before the call
StoreStateBefore ==
    freerdp_certificate_store_contains_data(call.storeBefore, call.host, call.cert)

Accepts == call.status >= 1
Rejects == call.status < 1
NoCallbackInvoked == call.cb.name = None
StoreUnchanged == store = call.storeBefore

\* C1: whenever the certificate store, asked by tls_verify_certificate, reports
\* Match for the presented certificate, the call returns accept and invokes no
\* user callback.
C1_LookupMatchAccepts ==
    (Called /\ call.storeRead /\ call.match = MATCH) => (Accepts /\ NoCallbackInvoked)

C1_Witness ==
    /\ Called /\ call.storeRead /\ call.match = MATCH
    /\ call.status = 1 /\ call.path = "store"

ChangedBit == "VERIFY_CERT_FLAG_CHANGED"
CallbackAccepts ==
    /\ call.cb.name # None
    /\ IF call.cb.name = "VerifyX509Certificate" THEN call.cb.answer >= 1
       ELSE call.cb.answer \in {1, 2}
StoredBefore == call.storeBefore[call.host]

\* C2 as stated: when the store reports Changed (and nothing keeps the decision
\* from the user: no auto-deny, a callback is registered), the user callback is
\* invoked with the changed-identity flag and the stored subject, issuer and
\* fingerprint, and if it accepts the entry is overwritten.
C2_ChangedAlwaysAsks ==
    ( /\ Called /\ call.storeRead /\ call.match = CHANGED /\ ~call.AutoDenyCertificate
      /\ call.registered \cap {"VerifyX509Certificate", "VerifyChangedCertificateEx"} # {}
      /\ call.loadOk ) =>
        /\ call.cb.name # None
        /\ ChangedBit \in call.cb.flags
        /\ call.cb.old_subject = freerdp_certificate_get_subject(StoredBefore)
        /\ call.cb.old_issuer = freerdp_certificate_get_issuer(StoredBefore)
        /\ call.cb.old_fp = freerdp_certificate_get_fingerprint(StoredBefore)
        /\ (CallbackAccepts => store[call.host] = call.cert)

\* C2, amended: when the store reports Changed and
\* AutoDenyCertificate is not set, the registered callback is invoked with the
\* changed-identity flag: VerifyX509Certificate if registered (it is given no stored
\* values), else VerifyChangedCertificateEx, which is given the stored subject and
\* issuer and the stored fingerprint (the stored PEM, flagged FP_IS_PEM, when PEM is
\* preferred) whenever the stored entry could be loaded; with neither registered the
\* call rejects.  The entry is overwritten exactly when the accept is permanent
\* (result 1) and the save succeeds.
C2_ChangedAsks ==
    (Called /\ call.storeRead /\ call.match = CHANGED /\ ~call.AutoDenyCertificate) =>
        /\ ("VerifyX509Certificate" \in call.registered =>
                /\ call.cb.name = "VerifyX509Certificate"
                /\ ChangedBit \in call.cb.flags
                /\ call.cb.old_subject = None /\ call.cb.old_issuer = None
                /\ call.cb.old_fp = None)
        /\ ("VerifyX509Certificate" \notin call.registered
              /\ "VerifyChangedCertificateEx" \in call.registered =>
                /\ call.cb.name = "VerifyChangedCertificateEx"
                /\ ChangedBit \in call.cb.flags
                /\ (call.loadOk =>
                      /\ call.cb.old_subject = freerdp_certificate_get_subject(StoredBefore)
                      /\ call.cb.old_issuer = freerdp_certificate_get_issuer(StoredBefore)
                      /\ IF "VERIFY_CERT_FLAG_FP_IS_PEM" \in call.cb.flags
                         THEN call.cb.old_fp = freerdp_certificate_get_pem(StoredBefore)
                         ELSE call.cb.old_fp = freerdp_certificate_get_fingerprint(StoredBefore)))
        /\ (call.registered \cap {"VerifyX509Certificate", "VerifyChangedCertificateEx"} = {} =>
                NoCallbackInvoked /\ Rejects)
        /\ IF call.accept_certificate = 1 /\ call.saveOk
           THEN store[call.host] = call.cert /\ Accepts
           ELSE StoreUnchanged

C2_Witness ==
    /\ Called /\ call.storeRead /\ call.match = CHANGED
    /\ call.cb.name = "VerifyChangedCertificateEx" /\ call.loadOk
    /\ call.cb.old_fp = freerdp_certificate_get_fingerprint(StoredBefore)
    /\ call.cb.answer = 1 /\ call.saveOk
    /\ store[call.host] = call.cert /\ store # call.storeBefore

\* C3: if the store reports Changed for the presented certificate and
\* AutoDenyCertificate is set, the call returns reject (and it asks no callback
\* and leaves the store alone).
C3_LookupChangedAutoDenyRejects ==
    (Called /\ call.storeRead /\ call.match = CHANGED /\ call.AutoDenyCertificate) =>
        (Rejects /\ NoCallbackInvoked /\ StoreUnchanged)

C3_Witness ==
    /\ Called /\ call.storeRead /\ call.match = CHANGED /\ call.AutoDenyCertificate
    /\ call.status = -1

ReachesUserMissing ==
    Called /\ call.storeRead /\ call.match = MISSING /\ call.cb.name # None

\* C4 as stated: Missing and the decision reaches the user: no changed-identity
\* bit; permanent accept saves and accepts; temporary accept accepts and leaves the
\* store alone; rejection rejects and leaves the store alone.
C4_MissingUserDecision ==
    ReachesUserMissing =>
        /\ ChangedBit \notin call.cb.flags
        /\ (call.accept_certificate = 1 => (store[call.host] = call.cert /\ Accepts))
        /\ (call.accept_certificate = 2 => (Accepts /\ StoreUnchanged))
        /\ (call.accept_certificate \notin {1, 2} => (Rejects /\ StoreUnchanged))

\* C4, amended: as stated, except that a permanent accept saves the certificate and
\* returns accept only if the store could be written; if the save fails the call
\* returns reject and the store is unchanged.
C4_MissingUserDecisionSaved ==
    ReachesUserMissing =>
        /\ ChangedBit \notin call.cb.flags
        /\ (call.accept_certificate = 1 /\ call.saveOk =>
                (store[call.host] = call.cert /\ Accepts))
        /\ (call.accept_certificate = 1 /\ ~call.saveOk => (Rejects /\ StoreUnchanged))
        /\ (call.accept_certificate = 2 => (Accepts /\ StoreUnchanged))
        /\ (call.accept_certificate \notin {1, 2} => (Rejects /\ StoreUnchanged))

C4_Witness ==
    /\ ReachesUserMissing /\ call.cb.name = "VerifyCertificateEx"
    /\ call.cb.answer = 1 /\ call.saveOk
    /\ call.storeBefore[call.host] = None /\ store[call.host] = call.cert

\* C6 as stated: if IgnoreCertificate is true the call returns accept, whatever the
\* store holds, and emits the warning.
C6_IgnoreAlwaysAccepts ==
    (Called /\ call.IgnoreCertificate) => (Accepts /\ IgnoreWarning \subseteq call.log)

\* C6, amended: if IgnoreCertificate is true, external certificate management is
\* off, the session is not being disconnected and the certificate's PEM can be
\* extracted, the call returns accept whatever the store holds and leaves the store
\* alone; it emits the warning unless the certificate was already accepted by the
\* accepted-PEM or the accepted-fingerprint check.
C6_IgnoreAccepts ==
    (Called /\ call.IgnoreCertificate /\ ~call.ExternalCertificateManagement
        /\ call.path \notin {"disconnect", "nopem"}) =>
        /\ call.status = 1
        /\ StoreUnchanged
        /\ call.path \in {"accepted", "fingerprint", "ignore"}
        /\ (call.path = "ignore" => IgnoreWarning \subseteq call.log)

C6_Witness ==
    /\ Called /\ call.IgnoreCertificate /\ call.path = "ignore"
    /\ StoreStateBefore = CHANGED /\ call.status = 1
    /\ IgnoreWarning \subseteq call.log

(***************************************************************************)
(* Properties of the handshake (SpecHandshake).                            *)
(***************************************************************************)
HandshakeDone == hs # NoHs

\* C7 as stated: in client mode, when the TLS handshake completes but the trust
\* policy does not accept the certificate, freerdp_tls_handshake returns
\* VerifyError and a fatal TLS alert is queued on the session.
C7_RejectionQueuesFatalAlert ==
    (HandshakeDone /\ hs.verified /\ call.status < 1) =>
        /\ hs.result = "TLS_HANDSHAKE_VERIFY_ERROR"
        /\ tls.send_alert # None
        /\ tls.send_alert[1] = "TLS_ALERT_LEVEL_FATAL"

\* C8: whenever freerdp_tls_handshake returns Success the session holds the
\* channel-binding token and the public key of the certificate of that call; if
\* either extraction fails the result is Error.
C8_SuccessHoldsBindingsAndKey ==
    /\ (HandshakeDone /\ hs.result = "TLS_HANDSHAKE_SUCCESS") =>
            /\ hs.cert # None /\ hs.bindingsOk /\ hs.publicKeyOk
            /\ tls.Bindings = tls_get_channel_bindings(hs.cert)
            /\ tls.PublicKey = freerdp_certificate_get_public_key(hs.cert)
    /\ (HandshakeDone /\ hs.done /\ hs.cert # None /\ ~(hs.bindingsOk /\ hs.publicKeyOk)) =>
            hs.result = "TLS_HANDSHAKE_ERROR"

C8_Witness ==
    /\ HandshakeDone /\ hs.result = "TLS_HANDSHAKE_SUCCESS"
    /\ tls.Bindings = tls_get_channel_bindings(hs.cert)
    /\ tls.PublicKey = freerdp_certificate_get_public_key(hs.cert)
    /\ hs.tlsBefore.PublicKey # tls.PublicKey

(***************************************************************************)
(* Properties of the first-use scenario (SpecFirstUse)                     *)
(***************************************************************************)
SecondCall ==
    /\ firstUse # NoFirstUse
    /\ Called
    /\ call.cert = firstUse.cert
    /\ call.host = firstUse.host

\* C5 as stated: after a first call for a certificate of an unknown host whose
\* chain verifies and whose name matches, the store contains the certificate,
\* and a second call for the same certificate and host accepts without
\* invoking any callback.
C5_FirstUseStoresCertificate ==
    /\ firstUse # NoFirstUse => firstUse.storeAfter[firstUse.host] = firstUse.cert
    /\ SecondCall => Accepts /\ NoCallbackInvoked

\* C5, amended: the first call accepts without invoking any callback and
\* leaves the store as it was (the host stays unknown to it); it records the
\* certificate's PEM as accepted for the transport kind, and a second call for
\* the same certificate, host and transport kind that gets to the PEM
\* comparison accepts there, without invoking any callback and still without
\* writing the store.
C5_FirstUseAcceptsInSession ==
    /\ firstUse # NoFirstUse =>
        /\ firstUse.status = 1
        /\ firstUse.cb = None
        /\ firstUse.storeAfter[firstUse.host] = None
        /\ firstUse.acceptedAfter = freerdp_certificate_get_pem(firstUse.cert)
    /\ ( /\ SecondCall
         /\ keyAccepted(call.transport) = keyAccepted(firstUse.transport)
         /\ call.path \notin {"disconnect", "nopem"} )
        => /\ call.path = "accepted"
           /\ Accepts
           /\ NoCallbackInvoked
           /\ StoreUnchanged

C5_Witness ==
    /\ SecondCall
    /\ call.transport = firstUse.transport
    /\ call.path = "accepted"
    /\ Accepts
    /\ store[call.host] = None

(***************************************************************************)
(* Properties of the BIO read/write path (SpecIo, SpecWriteAll)            *)
(***************************************************************************)
InEngine(t) == th[t].pc \in {"w_ssl", "w_leave", "r_ssl", "r_leave"}

\* C9: at no time are two threads inside SSL_read / SSL_write of the same
\* session: a thread inside the engine holds the lock, and no other thread is
\* inside the engine with it.
C9_EngineMutualExclusion ==
    \A t \in DOMAIN th :
        InEngine(t) =>
            /\ lock = t
            /\ \A u \in DOMAIN th \ {t} : ~InEngine(u)

C9_Witness ==
    \E t \in DOMAIN th, u \in DOMAIN th :
        /\ t # u
        /\ th[t].pc = "w_ssl"
        /\ th[t].length > 0
        /\ th[u].pc = "w_enter"
        /\ th[u].length > 0

WriteAllEnded(t) == th[t].pc = "wa_returned"

\* the bytes the engine took: offset, and the bytes of a write not yet added to it
Taken(t) ==
    th[t].offset + IF th[t].pc \in {"w_leave", "w_flags"} /\ th[t].status > 0
                   THEN th[t].status ELSE 0

IsPrefix(s, t) == Len(s) <= Len(t) /\ s = SubSeq(t, 1, Len(s))

\* C11: for a single caller, the bytes handed to the engine are at every moment
\* the first bytes of the buffer, each once and in order, and
\* freerdp_tls_write_all returns the full length only when all of them have
\* been handed over.
C11_FullLengthAfterAllBytesInOrder ==
    \A t \in DOMAIN th :
        /\ IsPrefix(th[t].sent, Buffer(th[t].length))
        /\ WriteAllEnded(t) /\ th[t].result = th[t].length =>
                th[t].sent = Buffer(th[t].length)

C11_Witness ==
    \E t \in DOMAIN th :
        /\ WriteAllEnded(t)
        /\ th[t].length = 2
        /\ th[t].result = 2
        /\ th[t].waited = 100
        /\ th[t].sent = <<1, 2>>

InWriteAll(t) == th[t].pc \notin {"idle", "wa_returned", "r_enter", "r_ssl", "r_leave",
                                  "r_flags", "r_returned"}

\* C12 as stated: once the abort event is signaled, a call of
\* freerdp_tls_write_all that is waiting on a write-blocked transport returns.
C12_AbortEndsWriteAll ==
    \A t \in SingleCaller : (abort /\ th[t].pc = "wa_wait") ~> (th[t].pc = "wa_returned")

FatalErrors == {"SSL_ERROR_SYSCALL", "SSL_ERROR_SSL", "SSL_ERROR_ZERO_RETURN"}

\* C14 as stated: after an engine read or write that failed with
\* SSL_ERROR_SYSCALL, SSL_ERROR_SSL or SSL_ERROR_ZERO_RETURN the retry
\* indication is not set, and freerdp_tls_write_all goes on to return -1: it
\* does not get past its BIO_should_retry test.
C14_FatalErrorsNotRetried ==
    \A t \in DOMAIN th :
        /\ th[t].pc \in {"wa_should_retry", "r_returned"} /\ th[t].error \in FatalErrors =>
                RetryFlag \notin bioFlags
        /\ InWriteAll(t) /\ th[t].error \in FatalErrors =>
                th[t].pc \in {"w_leave", "w_flags", "wa_should_retry"}
        /\ WriteAllEnded(t) /\ th[t].error \in FatalErrors => th[t].result = -1

(***************************************************************************)
(* Properties of pollAndHandshake (SpecConnect)                            *)
(***************************************************************************)
PollReturned == poll.pc = "returned" /\ poll.why # "connect_ex"

IsPut == op.name = "bitmap_cache_put"
IsGet == op.name = "bitmap_cache_get"
InRange == Addressed(op.id, op.index) # {}
SlotContent(c, s) == c[s[1]].entries[s[2]]

\* C15: a get on an in-range (cell, index) returns the bitmap most recently
\* put at that slot, or none if nothing was put there; a put to a slot leaves
\* every other slot as it was.
C15_GetReturnsLastPut ==
    /\ IsGet /\ InRange => \A s \in Addressed(op.id, op.index) : op.bitmap = op.put[s]
    /\ IsPut /\ InRange =>
            \A s \in Slots \ Addressed(op.id, op.index) :
                SlotContent(cells, s) = SlotContent(op.before, s)

C15_Witness ==
    /\ IsGet
    /\ op.id = 1
    /\ op.index = 1
    /\ op.bitmap = 2
    /\ SlotContent(cells, <<0, 1>>) = 1
    /\ SlotContent(cells, <<1, 0>>) = 1

\* C16: bitmap_cache_put and bitmap_cache_get with a cell id >= maxCells, or
\* with an index above the cell's capacity that is not the waiting-list
\* index, report failure, touch no memory outside the cells and their slots,
\* and leave every slot unchanged.
C16_OutOfRangeFails ==
    (IsPut \/ IsGet) /\ ~InRange =>
        /\ ~op.result
        /\ op.bitmap = NULL \/ IsPut
        /\ ~op.outside
        /\ ~op.crashed
        /\ cells = op.before

\* C18: a put at BITMAP_CACHE_WAITING_LIST_INDEX stores the bitmap in slot N
\* of a cell of capacity N; a get at BITMAP_CACHE_WAITING_LIST_INDEX and a get
\* at index N return the same bitmap, the one last put at either index.
C18_WaitingListIsSlotN ==
    /\ IsPut /\ op.id < maxCells /\ op.index = BITMAP_CACHE_WAITING_LIST_INDEX =>
            /\ op.result
            /\ SlotContent(cells, <<op.id, cells[op.id].number>>) = op.bitmap
    /\ IsGet /\ op.id < maxCells
         /\ op.index \in {BITMAP_CACHE_WAITING_LIST_INDEX, cells[op.id].number} =>
            /\ op.bitmap = op.put[<<op.id, numEntries(op.id)>>]
            /\ op.bitmap = SlotContent(cells, <<op.id, cells[op.id].number>>)

C18_Witness ==
    /\ IsGet
    /\ op.id = 1
    /\ op.index = BITMAP_CACHE_WAITING_LIST_INDEX
    /\ op.bitmap = 2
    /\ op.put[<<1, 1>>] = 2
    /\ SlotContent(cells, <<1, 0>>) = 1

(***************************************************************************)
(* Properties of the cache and drawing orders (SpecOrders)                 *)
(***************************************************************************)
CacheOrders ==
    {"update_gdi_cache_bitmap", "update_gdi_cache_bitmap_v2", "update_gdi_cache_bitmap_v3"}
DrawingOrders == {"update_gdi_memblt", "update_gdi_mem3blt"}
Installed == op.name \in CacheOrders /\ op.step = "bitmap_cache_put" /\ op.result /\ InRange

\* C17: a CacheBitmap order (v1, v2 or v3) that installs its bitmap into an
\* occupied slot frees the slot's previous bitmap, which then has been freed
\* exactly once; no bitmap is ever freed more than once, cache teardown
\* included, and teardown frees every bitmap a slot held.
C17_PreviousFreedOnce ==
    /\ Installed =>
            \A s \in Addressed(op.id, op.index) :
                /\ op.prevBitmap = SlotContent(op.before, s)
                /\ SlotContent(cells, s) = op.bitmap
                /\ op.prevBitmap # NULL =>
                       /\ bitmaps[op.prevBitmap].state = "freed"
                       /\ bitmaps[op.prevBitmap].frees = 1
    /\ \A b \in Handles : bitmaps[b].frees <= 1
    /\ op.name = "bitmap_cache_free" =>
            \A s \in Slots : \A b \in Handles :
                SlotContent(op.before, s) = b => bitmaps[b].frees = 1

C17_Witness ==
    /\ Installed
    /\ op.name = "update_gdi_cache_bitmap_v2"
    /\ op.index = BITMAP_CACHE_WAITING_LIST_INDEX
    /\ op.prevBitmap = 1
    /\ op.bitmap = 2
    /\ bitmaps[1].frees = 1

\* C19: a MemBlt or Mem3Blt order that references an in-range bitmap cache
\* slot holding no bitmap returns success, does not invoke the drawing
\* callback and logs nothing at error level.
C19_EmptySlotIsSkipped ==
    /\ op.name \in DrawingOrders
    /\ op.id # 255
    /\ Addressed(op.id % 256, op.index) # {}
    /\ \A s \in Addressed(op.id % 256, op.index) : SlotContent(op.before, s) = NULL
    => /\ op.result
       /\ ~op.callback
       /\ op.log = None

C19_Witness ==
    /\ op.name = "update_gdi_mem3blt"
    /\ op.id = 257
    /\ op.index = 1
    /\ op.style = 131
    /\ op.result
    /\ ~op.callback
    /\ \E s \in Slots : SlotContent(cells, s) # NULL

\* C20: with color depth 15 a CacheBitmapV2 order carrying bitmapBpp 16 is
\* decoded, and its bitmap installed, with bpp 15; a CacheBitmapV2 order
\* carrying bitmapBpp 0 is decoded with the session's color depth.
C20_V2BppNormalized ==
    op.name = "update_gdi_cache_bitmap_v2" /\ op.step # "Bitmap_SetDimensions" =>
        /\ op.ColorDepth = 15 /\ op.orderBpp = 16 => op.bpp = 15
        /\ op.orderBpp = 0 => op.bpp = op.ColorDepth

C20_Witness ==
    /\ Installed
    /\ op.name = "update_gdi_cache_bitmap_v2"
    /\ op.ColorDepth = 15
    /\ op.orderBpp = 16
    /\ op.bpp = 15
    /\ SlotContent(cells, <<1, 1>>) = op.bitmap

\* C21: persistent cache entries are written, and the persistent cache file
\* is opened for writing, only by bitmap_cache_free and only when
\* BitmapCacheVersion is 2, BitmapCachePersistEnabled is set and
\* BitmapCachePersistFile is configured.
C21_PersistentOnlyAtTeardown ==
    op.written # {} \/ op.opened =>
        /\ op.name = "bitmap_cache_free"
        /\ op.version = 2
        /\ op.persistEnabled
        /\ op.persistFile

C21_Witness ==
    /\ op.name = "bitmap_cache_free"
    /\ op.version = 2
    /\ op.written = {<<0, 1>>, <<1, 0>>}
    /\ op.status = 1

(***************************************************************************)
(* Properties of the ring buffer (SpecRing)                                *)
(***************************************************************************)
IsPeek == rbOp.name = "ringbuffer_peek"

\* C22: the bytes a peek shows are the bytes written, in the order written,
\* that no commit_read_bytes has given back yet: with the reads before it
\* they make up a prefix of what was written, byte for byte, also after the
\* data has wrapped around and after the buffer has grown or shrunk.
C22_ReadsArePrefixOfWrites ==
    /\ IsPeek => rbOp.bytes = [k \in 1..Len(rbOp.bytes) |-> ByteOf(rbOp.read + k)]
    /\ Content(rb) = [k \in 1..ringbuffer_used(rb) |-> ByteOf(rbOp.read + k)]
    /\ ByteOf(rbOp.read + ringbuffer_used(rb)) = rbOp.written

C22_Witness ==
    /\ IsPeek
    /\ Len(rbOp.chunks) = 2
    /\ rbOp.grown
    /\ Len(rbOp.bytes) = 4
    /\ rbOp.read = 5

\* C23: ringbuffer_peek(sz) leaves the buffer as it is and shows at most two
\* spans, of min(sz, used) bytes together; none when the buffer is empty; two
\* exactly when the data wraps, the first then ending at the end of the
\* buffer and the second starting at index 0.
C23_PeekSpans ==
    /\ [](IsPeek =>
          LET n == Min(rbOp.sz, ringbuffer_used(rb))
              wraps == rb.readPtr + n > rb.size
          IN /\ Len(rbOp.chunks) <= 2
             /\ Len(rbOp.bytes) = n
             /\ \A i \in 1..Len(rbOp.chunks) : rbOp.chunks[i].size > 0
             /\ ringbuffer_used(rb) = 0 => Len(rbOp.chunks) = 0
             /\ n > 0 => rbOp.chunks[1].start = rb.readPtr
             /\ Len(rbOp.chunks) = 2 <=> wraps
             /\ Len(rbOp.chunks) = 2 =>
                   /\ rbOp.chunks[1].start + rbOp.chunks[1].size = rb.size
                   /\ rbOp.chunks[2].start = 0)
    /\ [][IsPeek' /\ rbOp' # rbOp => rb' = rb]_vars

C23_Witness ==
    /\ IsPeek
    /\ rbOp.sz = 4
    /\ ringbuffer_used(rb) = 3
    /\ Len(rbOp.chunks) = 2
    /\ rbOp.chunks[1].size = 1

IsCommitRead == rbOp.name = "ringbuffer_commit_read_bytes"

\* C24 as stated: the capacity never goes down.
C24_CapacityNeverDecreases == [][rb'.size >= rb.size]_vars

\* C24: the capacity is never below the one given to ringbuffer_init; no
\* write, ensure_linear_write, commit_written_bytes or peek lowers it; a
\* commit_read_bytes that lowers it sets it to the initial capacity.
C24_CapacityAtLeastInitial ==
    /\ [](rb.size >= rb.initialSize)
    /\ [][rb'.size < rb.size => IsCommitRead' /\ rb'.size = rb.initialSize]_vars

C24_Witness ==
    /\ IsCommitRead
    /\ rbOp.grown
    /\ rb.initialSize = 4
    /\ rb.size = 4
    /\ ringbuffer_used(rb) = 0

ReachedFingerprints == call.path \notin {"none", "disconnect", "nopem", "accepted"}

\* the entry names a hash algorithm under which the certificate's
\* fingerprint, with or without colons, is the entry's text up to case
EntryNames(e, c) ==
    \E separator \in BOOLEAN :
        LET text == freerdp_certificate_get_fingerprint_by_hash_ex(c, e.h, separator)
        IN text # None /\ Lower(text) = Lower(e.fp)

ReachedAccepted == call.path \notin {"none", "disconnect", "nopem"}

\* the PEM that was on record, when the call began, for its kind of transport:
\* gateway, redirected (and not gateway), or direct
RecordedBefore ==
    IF call.transport.isGatewayTransport THEN call.acceptedBefore["GatewayAcceptedCert"]
    ELSE IF call.transport.RedirectionFlags # {}
            /\ "LB_NOREDIRECT" \notin call.transport.RedirectionFlags
    THEN call.acceptedBefore["RedirectionAcceptedCert"]
    ELSE call.acceptedBefore["AcceptedCert"]

DbEntryMatches ==
    \E x \in 1..Len(call.cfg.db) :
        LET text == freerdp_certificate_get_fingerprint_by_hash_ex(call.cert, call.cfg.db[x].type, FALSE)
        IN text # None /\ Lower(text) = Lower(call.cfg.db[x].hash)

\* the call ended on what certificates.json says: no store lookup, no
\* callback, no store write
DecidedByConfig(status) ==
    /\ call.path = "config"
    /\ call.status = status
    /\ ~call.storeRead
    /\ NoCallbackInvoked
    /\ store = call.storeBefore

\* C29: certificates.json is read when the chain does not verify or the
\* name does not match, and its keys apply in the order deny, ignore,
\* certificate-db, deny-userconfig: deny rejects whatever the other keys
\* say; else ignore or a matching certificate-db entry accepts, also with
\* deny-userconfig; else deny-userconfig rejects.  In all four cases the
\* store is not looked up and no callback is invoked.
C29_ConfigOrder ==
    /\ call.path \in {"config", "store"} =>
          call.configRead /\ ~(call.certificate_status /\ call.hostname_match)
    /\ call.configRead /\ call.cfg.present =>
          /\ call.cfg.deny => DecidedByConfig(-1)
          /\ ~call.cfg.deny /\ (call.cfg.ignore \/ DbEntryMatches) => DecidedByConfig(1)
          /\ ~call.cfg.deny /\ ~call.cfg.ignore /\ ~DbEntryMatches /\ call.cfg.denyUserconfig
                => DecidedByConfig(-1)

C29_Witness ==
    /\ call.path = "config"
    /\ call.status = 1
    /\ ~call.cfg.ignore
    /\ call.cfg.denyUserconfig
    /\ DbEntryMatches
    /\ ~call.hostname_match

(***************************************************************************)
(* Properties of tls_match_hostname (SpecHostname)                         *)
(***************************************************************************)
\* the text is one label: not empty, no dot in it
IsLabel(text) == Len(text) > 0 /\ \A i \in 1..Len(text) : text[i] # "."

\* C30: tls_match_hostname(pattern, hostname) is TRUE exactly when the two
\* are equal up to case, or the pattern begins with "*." and the hostname is
\* one label followed by the pattern without its "*", up to case; so a
\* wildcard never stands for more than one label.
C30_WildcardIsOneLabel ==
    hm.called =>
        ( hm.result <=>
            \/ Lower(hm.hostname) = Lower(hm.pattern)
            \/ /\ Len(hm.pattern) >= 2
               /\ hm.pattern[1] = "*"
               /\ hm.pattern[2] = "."
               /\ \E k \in 1..Len(hm.hostname) :
                     /\ IsLabel(SubSeq(hm.hostname, 1, k))
                     /\ Lower(SubSeq(hm.hostname, k + 1, Len(hm.hostname)))
                            = Lower(Tail(hm.pattern)) )

(***************************************************************************)
(* Properties of the cache orders, continued (SpecOrders)                  *)
(***************************************************************************)
IsV3 == op.name = "update_gdi_cache_bitmap_v3"

\* the handler got as far as bitmap->Decompress
DecoderCalled == op.step # None /\ op.step # "Bitmap_SetDimensions"

\* C31: a CacheBitmapV3 order whose bpp is zero is decoded with the session's
\* color depth: the bpp handed to the decoder is the defaulted one.
C31_V3DecodedWithDefaultedBpp ==
    IsV3 /\ DecoderCalled /\ op.orderBpp = 0 => op.bpp = op.ColorDepth

IsFlush == op.name = "bitmap_cache_free" /\ op.opened

\* the bitmap the slot held when the flush began
HeldAtFlush(s) == op.before[s[1]].entries[s[2]]
AtFlush(b) == op.bitmapsBefore[b]

IsMem3Blt == op.name = "update_gdi_mem3blt"

\* C33: a Mem3Blt callback called for a brush with the CACHED_BRUSH flag sees
\* the brush style 0x03, and whichever way update_gdi_mem3blt returns (no
\* bitmap, brush not in the brush cache, drawn, drawing failed) the brush
\* style is then what it was at entry.
C33_BrushStyleRestored ==
    IsMem3Blt =>
        /\ op.styleAfter = op.style
        /\ op.callback /\ IsCachedBrush(op.style) => op.styleAtCallback = 3

C33_Witness ==
    /\ IsMem3Blt
    /\ op.style = 131
    /\ op.callback
    /\ op.styleAtCallback = 3
    /\ ~op.result
    /\ op.styleAfter = 131

(***************************************************************************)
(* Properties of freerdp_tls_connect, continued (SpecConnect)              *)
(***************************************************************************)
\* freerdp_tls_connect has returned from a call in which tls_prepare failed
PrepareFailed == poll.pc = "returned" /\ poll.why = "connect_ex" /\ ~poll.prepared

\* C34: when tls_prepare fails, freerdp_tls_connect_ex yields
\* TLS_HANDSHAKE_ERROR, as freerdp_tls_accept_ex does, and freerdp_tls_connect
\* returns -1, never success.
C34_PrepareFailureIsError ==
    PrepareFailed =>
        /\ poll.connect_ex = "TLS_HANDSHAKE_ERROR"
        /\ poll.result = -1

(***************************************************************************)
(* Properties of the store branches, continued (SpecVerify)                *)
(***************************************************************************)
ChangedCallbacks == {"VerifyX509Certificate", "VerifyChangedCertificateEx"}

StoreReportsChanged == call.path = "store" /\ call.storeRead /\ call.match = CHANGED

\* C35: when the store reports Changed, AutoAcceptCertificate accepts nothing:
\* an accept comes from a callback that was invoked and answered with an
\* accepting value, and with no callback registered the call rejects.
C35_ChangedNeverAutoAccepted ==
    StoreReportsChanged =>
        /\ call.status > 0 =>
              /\ call.cb.name \in ChangedCallbacks
              /\ call.cb.name \in call.registered
              /\ call.cb.answer >= 1
        /\ call.registered \cap ChangedCallbacks = {} =>
              call.status < 0 /\ call.cb.name = None

C35_Witness ==
    /\ StoreReportsChanged /\ call.AutoAcceptCertificate /\ ~call.AutoDenyCertificate
    /\ call.registered = {} /\ call.status = -1 /\ call.cb.name = None

StoreWritten == Called /\ store # call.storeBefore

\* the decision was a permanent accept: a callback answered 1, or a host
\* without an entry was accepted by AutoAcceptCertificate
PermanentAccept ==
    \/ call.cb.name # None /\ call.cb.answer = 1
    \/ /\ call.cb.name = None /\ call.match = MISSING
       /\ call.AutoAcceptCertificate

\* C36: the store is written only on a permanent accept of a Missing or Changed
\* identity, and then only the entry of the host is replaced by the presented
\* certificate; every call decided otherwise (accepted PEM, fingerprint list,
\* external management, ignore, authentication level, verified chain and name,
\* configuration file, temporary accept, Match, any rejection) leaves the
\* store as it was.
C36_StoreWrittenOnlyOnPermanentAccept ==
    /\ StoreWritten =>
          /\ call.path = "store" /\ call.storeRead
          /\ call.match \in {MISSING, CHANGED}
          /\ PermanentAccept
          /\ call.status = 1
          /\ store = [call.storeBefore EXCEPT ![call.host] = call.cert]
    /\ ( Called /\ ( \/ call.path # "store"
                     \/ call.match = MATCH
                     \/ call.status < 1
                     \/ ~PermanentAccept ) ) => store = call.storeBefore

C36_Witness ==
    /\ StoreWritten /\ call.match = MISSING
    /\ call.cb.name = "VerifyX509Certificate" /\ call.cb.answer = 1
    /\ call.storeBefore[call.host] = None /\ store[call.host] = call.cert

(***************************************************************************)
(* Ownership of bitmaps in the cache, continued (SpecOrders)               *)
(***************************************************************************)
\* a cache order that ended at `goto fail`
OrderFailedAt(step) == op.name \in CacheOrders /\ ~op.result /\ op.step = step

\* C37: as long as the cache exists, after any sequence of CacheBitmap v1/v2/v3
\* orders, failed ones included, every bitmap a slot refers to is live: none
\* has been freed.
C37_NoSlotRefersToFreed ==
    CacheAlive =>
        \A s \in Slots :
            SlotContent(cells, s) # NULL => bitmaps[SlotContent(cells, s)].state = "live"

\* a v2 order for an occupied slot fails at New, after the slot's bitmap has
\* been looked up: the slot keeps its bitmap, the new one is freed
C37_Witness ==
    /\ op.name = "update_gdi_cache_bitmap_v2" /\ OrderFailedAt("New")
    /\ \E s \in Addressed(op.id, op.index) :
          /\ SlotContent(cells, s) = 1
          /\ bitmaps[1].state = "live"
    /\ op.bitmap = 2 /\ bitmaps[2].state = "freed"

\* the slots that hold bitmap b
Owners(b) == {s \in Slots : SlotContent(cells, s) = b}

\* a cache order has returned; op.bitmap is the bitmap it allocated
HandlerReturned == op.name \in CacheOrders /\ ~op.crashed

\* C38: when a CacheBitmap v1/v2/v3 handler returns, the bitmap it allocated is
\* held by exactly one slot or has been freed; when bitmap_cache_put has
\* reported failure the bitmap has been freed and the handler returns failure.
C38_AllocatedBitmapOwnedOrFreed ==
    HandlerReturned =>
        /\ \/ Cardinality(Owners(op.bitmap)) = 1 /\ bitmaps[op.bitmap].state = "live"
           \/ Owners(op.bitmap) = {} /\ bitmaps[op.bitmap].state = "freed"
        /\ op.step = "bitmap_cache_put" /\ ~op.result =>
              bitmaps[op.bitmap].state = "freed"

(***************************************************************************)
(* Properties of freerdp_tls_write_all, continued (SpecWriteAll, SpecIo)   *)
(***************************************************************************)
\* C39: when freerdp_tls_write_all returns -2 (must read first) or -1 (error),
\* the engine has taken no byte of the buffer of that call, so that sending
\* the whole buffer again repeats no byte.
C39_FailedWriteAllSentNothing ==
    \A t \in DOMAIN th :
        WriteAllEnded(t) /\ th[t].result \in {-1, -2} =>
            th[t].sent = <<>> /\ th[t].offset = 0

\* the engine errors for which bio_rdp_tls_write and bio_rdp_tls_read both set
\* or clear the should-retry flag
RetryErrors == {"SSL_ERROR_WANT_READ", "SSL_ERROR_WANT_WRITE"}
NoRetryErrors == {"SSL_ERROR_NONE", "SSL_ERROR_SYSCALL", "SSL_ERROR_SSL"}

\* the flags as the engine error of thread t's own failed call leaves them
ReflectsOwnError(t) ==
    /\ th[t].error \in RetryErrors => RetryFlag \in bioFlags
    /\ th[t].error \in NoRetryErrors => RetryFlag \notin bioFlags
    /\ ReadFlag \in bioFlags <=> th[t].error = "SSL_ERROR_WANT_READ"
    /\ WriteFlag \in bioFlags <=> th[t].error = "SSL_ERROR_WANT_WRITE"

InRead(t) == th[t].pc \in {"r_enter", "r_ssl", "r_leave", "r_flags", "r_returned"}

\* thread t is about to test, or may test, the flags after its own failed call
ObservesFlags(t) ==
    \/ th[t].pc \in {"wa_should_retry", "wa_write_blocked", "wa_read_blocked"}
    \/ th[t].pc = "r_returned" /\ th[t].status <= 0

\* C40: with one thread in bio_rdp_tls_read and another in bio_rdp_tls_write on
\* the same BIO, the should-retry, read-blocked and write-blocked flags a thread
\* finds after its own failed call are those of the engine error of that call.
C40_FlagsReflectOwnError ==
    \A t \in DOMAIN th, u \in DOMAIN th :
        (t # u /\ ObservesFlags(t) /\ InRead(t) # InRead(u) /\ th[u].pc # "idle") =>
            ReflectsOwnError(t)

====
